---------------------------- MODULE Spec2Model ----------------------------
(***************************************************************************)
(* Access-gated onboarding of DoxIn-frontend: access requests, their       *)
(* review by admins, issuance of access codes with invitation e-mails,     *)
(* and redemption of a code at signup.                                     *)
(*                                                                         *)
(* Every await of a route handler is a point where other requests may run, *)
(* so every handler is a small process whose steps are its awaits.         *)
(***************************************************************************)
EXTENDS Integers, Sequences, FiniteSets, TLC

VARIABLES
    accessRequests,  \* table access_requests: sequence of rows, id = index
    accessCodes,     \* table access_codes: sequence of rows, id = index
    users,           \* table users: set of e-mails that have an account
    now,             \* the wall clock, in ticks
    emailsSent,      \* invitation e-mails accepted by the mail service
    call,            \* admin route handlers in flight, per worker
    callsStarted,    \* number of admin requests received so far
    response,        \* the last response an admin route has sent
    captchaEnv,      \* the server's Turnstile configuration (serverConfig)
    rateLimits,      \* points consumed per key of the access-request limiter
    submit,          \* request-access handlers in flight, per worker
    submitsStarted,  \* number of access-request submissions received so far
    submitResponse,  \* the last response of the request-access route
    page,            \* the signup page of each browser
    signupsStarted,  \* number of signup forms submitted so far
    codeEdits,       \* number of changes of an access-code field so far
    generated,       \* the last call of generateAccessCode: its bytes and its code
    magic,           \* magic-link handlers in flight, per worker
    magicLimits,     \* points consumed per key of the magic-link limiter
    magicStarted,    \* number of magic-link requests received so far
    magicResponse,   \* the last response of the magic-link route, per worker
    magicSent,       \* e-mail addresses a sign-in link was sent to
    authSession,     \* AuthContextProvider: useSession(), pending, no user, or a user
    authUser,        \* AuthContextProvider: user
    jwtToken,        \* AuthContextProvider: jwtToken
    jwtExpiresAt,    \* AuthContextProvider: jwtExpiresAt
    authTasks,       \* AuthContextProvider: asynchronous calls in flight
    authChanges      \* number of session changes and refresh calls so far

\* The state of the admin routes, of the request-access route, of the signup pages.
adminVars == <<emailsSent, call, callsStarted, response>>
submitVars == <<captchaEnv, rateLimits, submit, submitsStarted, submitResponse>>
signupVars == <<page, signupsStarted, codeEdits>>

\* The state of what stands beside the invitation workflow.
magicVars == <<magic, magicLimits, magicStarted, magicResponse, magicSent>>
authVars == <<authSession, authUser, jwtToken, jwtExpiresAt, authTasks, authChanges>>
sideVars == <<generated, magicVars, authVars>>

vars == <<accessRequests, accessCodes, users, now, adminVars, submitVars, signupVars,
          sideVars>>

----------------------------------------------------------------------------
(* Bounds of the model *)

MaxCalls == 2       \* admin requests received in one behaviour
NumRequests == 2    \* access requests in the table
NumDraws == 2       \* distinct outcomes of crypto.randomBytes
MaxTime == 1        \* clock ticks, of 24 hours each

\* Two handlers run at a time: the races of the routes are between two requests.
Workers == {"w1", "w2"}
RequestIds == 1..NumRequests

----------------------------------------------------------------------------
(* Sessions: auth.api.getSession gives null or a session with a user *)

NoSession == "none"
Admins == {"admin1"}
Members == {"user1"}
Sessions == {NoSession} \cup Admins \cup Members

Role(u) == IF u \in Admins THEN "admin" ELSE "user"

\* The guard every admin route starts with: 0 lets the request through.
AuthorizeAnySession(session) ==
    IF session = NoSession THEN 401 ELSE 0

Authorize(session) ==
    IF session = NoSession THEN 401
    ELSE IF Role(session) # "admin" THEN 403
    ELSE 0

----------------------------------------------------------------------------
(* Code Generator *)

CodeLength == 12
MaxAttempts == 10
InvitationTtl == 1  \* 24 * 60 * 60 * 1000 ms, in clock ticks

chars == <<"A","B","C","D","E","F","G","H","J","K","L","M","N","P","Q","R",
           "S","T","U","V","W","X","Y","Z","2","3","4","5","6","7","8","9">>

\* A generator that folds the byte on one symbol less than the alphabet has.
generateAccessCodeShort(randomBytes) ==
    [i \in 1..CodeLength |-> chars[(randomBytes[i] % (Len(chars) - 1)) + 1]]

generateAccessCode(randomBytes) ==
    [i \in 1..CodeLength |-> chars[(randomBytes[i] % Len(chars)) + 1]]

\* What crypto.randomBytes(12) may return in this model.
RandomDraws == {[i \in 1..CodeLength |-> b] : b \in 0..(NumDraws - 1)}

----------------------------------------------------------------------------
(* Storage *)

\* A nullable column: null, or a value. Null is the null of a text column.
Null == "null"
None == <<>>
Some(x) == <<x>>

\* E-mail addresses are strings of characters.
EmailA == <<"a", "@", "x", ".", "c", "o", "m">>
EmailB == <<"b", "@", "y", ".", "c", "o", "m">>
Emails == {EmailA, EmailB}

NewRequest(email) ==
    [email |-> email, status |-> "pending", reviewedAt |-> None,
     reviewedBy |-> Null, rejectionReason |-> Null]

\* A code row whose expiry is the moment of its creation.
NewCodeExpired(code, generatedBy, generationType, requestId) ==
    [code |-> code, isUsed |-> FALSE, usedByEmail |-> None, usedAt |-> None,
     expiresAt |-> now, generatedBy |-> generatedBy,
     generationType |-> generationType, accessRequestId |-> requestId]

NewCode(code, generatedBy, generationType, requestId) ==
    [code |-> code, isUsed |-> FALSE, usedByEmail |-> None, usedAt |-> None,
     expiresAt |-> now + InvitationTtl, generatedBy |-> generatedBy,
     generationType |-> generationType, accessRequestId |-> requestId]

CodeIds == DOMAIN accessCodes

\* prisma.accessCode.findUnique({ where: { code } })
FindCodeByString(code) == {i \in CodeIds : accessCodes[i].code = code}

\* prisma.accessCode.findFirst({ where: { accessRequestId } })
FindCodeByRequest(rid) ==
    {i \in CodeIds : accessCodes[i].accessRequestId = Some(rid)}

\* The unique indexes of access_codes (code, access_request_id) reject the row.
ViolatesUniqueNever(row) == FALSE

ViolatesUnique(row) ==
    \/ FindCodeByString(row.code) # {}
    \/ \E i \in CodeIds : /\ row.accessRequestId # None
                          /\ accessCodes[i].accessRequestId = row.accessRequestId

----------------------------------------------------------------------------
(* Admin route handlers *)

Idle ==
    [op |-> "none", pc |-> "idle", session |-> NoSession, id |-> 0, ids |-> {},
     reason |-> Null, requests |-> <<>>, idx |-> 0, code |-> None, attempts |-> 0,
     codeId |-> 0, results |-> <<>>, errors |-> <<>>, generateCode |-> FALSE]

NoResponse ==
    [op |-> "none", session |-> NoSession, id |-> 0, ids |-> {}, status |-> 0,
     requests |-> <<>>, results |-> <<>>, errors |-> <<>>, count |-> 0]

\* NextResponse.json(body, { status }) for the request c, with what it was asked.
Reply(c, status) ==
    [op |-> c.op, session |-> c.session, id |-> c.id, ids |-> c.ids,
     status |-> status, requests |-> c.requests,
     results |-> c.results, errors |-> c.errors, count |-> 0]

CanStart(w) == call[w].pc = "idle" /\ callsStarted < MaxCalls

\* The handler of worker w returns: its response goes out and the worker is free.
Respond(w, c, status) ==
    /\ call' = [call EXCEPT ![w] = Idle]
    /\ response' = Reply(c, status)

\* The handler of worker w goes on to its next await.
Continue(w, c) ==
    /\ call' = [call EXCEPT ![w] = c]
    /\ UNCHANGED response

\* Where a handler is after getSession and its checks on the request.
Enter(w, c, status, pc) ==
    IF status = 0 THEN Continue(w, [c EXCEPT !.pc = pc]) ELSE Respond(w, c, status)

\* All orders in which findMany may return the rows of a set of ids.
Orders(S) ==
    {q \in [1..Cardinality(S) -> S] : \A i, j \in DOMAIN q : i # j => q[i] # q[j]}

\* The e-mail of the access request with id i.
EmailOf(i) == IF i % 2 = 1 THEN EmailA ELSE EmailB

\* A request that another admin approved at time 0, before the behaviour starts.
ApprovedRequest(email) ==
    [NewRequest(email) EXCEPT !.status = "approved", !.reviewedAt = Some(0),
                              !.reviewedBy = "admin0"]

\* A code an admin generated directly (admin_invite), redeemed since.
InviteCode ==
    [code |-> generateAccessCode([i \in 1..CodeLength |-> 0]), isUsed |-> TRUE,
     usedByEmail |-> Some(EmailB), usedAt |-> Some(0), expiresAt |-> InvitationTtl,
     generatedBy |-> "admin0", generationType |-> "admin_invite",
     accessRequestId |-> None]

\* No admin request has come in.
AdminIdle ==
    /\ emailsSent = {}
    /\ call = [w \in Workers |-> Idle]
    /\ callsStarted = 0
    /\ response = NoResponse

\* No submission has come in; Turnstile is configured as in production.
SubmitQuiet ==
    /\ captchaEnv = [secretKey |-> TRUE, isDevelopment |-> FALSE]
    /\ rateLimits = <<>>
    /\ submit = [w \in Workers |-> [pc |-> "idle", email |-> <<>>, captchaToken |-> ""]]
    /\ submitsStarted = 0
    /\ submitResponse = [status |-> 0, email |-> <<>>, error |-> "", requestId |-> 0]

\* No browser has the signup page open.
SignupIdle ==
    /\ page = <<>>
    /\ signupsStarted = 0
    /\ codeEdits = 0

\* generateAccessCode has not been called.
NoDraw == [randomBytes |-> <<>>, code |-> <<>>]
\* No magic-link request has come in.
MagicIdle == [pc |-> "idle", email |-> <<>>]
NoMagicResponse == [status |-> 0, message |-> "", email |-> <<>>]
MagicQuiet ==
    /\ magic = [w \in Workers |-> MagicIdle]
    /\ magicLimits = <<>>
    /\ magicStarted = 0
    /\ magicResponse = [w \in Workers |-> NoMagicResponse]
    /\ magicSent = {}

\* The provider as it is constructed: the session is being loaded.
AuthQuiet ==
    /\ authSession = "pending"
    /\ authUser = Null
    /\ jwtToken = Null
    /\ jwtExpiresAt = Null
    /\ authTasks = <<>>
    /\ authChanges = 0

SideIdle ==
    /\ generated = NoDraw
    /\ MagicQuiet
    /\ AuthQuiet

\* The tables when the admin requests start coming in: requests pending or
\* already approved, and one code of an earlier direct invitation.
Init ==
    /\ accessRequests \in
         {[i \in RequestIds |-> IF i \in A THEN ApprovedRequest(EmailOf(i))
                                            ELSE NewRequest(EmailOf(i))] :
            A \in SUBSET RequestIds}
    /\ accessCodes = <<InviteCode>>
    /\ users = {}
    /\ now = 0
    /\ AdminIdle
    /\ SubmitQuiet
    /\ SignupIdle
    /\ SideIdle

Tick ==
    /\ now < MaxTime
    /\ now' = now + 1
    /\ UNCHANGED <<accessRequests, accessCodes, users, adminVars, submitVars, signupVars, sideVars>>

UnknownId == NumRequests + 1
IdInputs == RequestIds \cup {UnknownId}
ReasonInputs == {Null, "spam"}

\* [id]/approve POST up to its first storage call: getSession and the role check.
\* The body, { generateCode?, sendEmail? }, comes with the request; the handler
\* does not read it.
ApproveStart(w) ==
    /\ CanStart(w)
    /\ \E session \in Sessions, id \in IdInputs, generateCode \in BOOLEAN :
         Enter(w, [Idle EXCEPT !.op = "approve", !.session = session, !.id = id,
                               !.generateCode = generateCode],
               Authorize(session), "find")
    /\ callsStarted' = callsStarted + 1
    /\ UNCHANGED <<submitVars, signupVars, sideVars>>
    /\ UNCHANGED <<accessRequests, accessCodes, users, now, emailsSent>>

\* A review that looks the request up and does not look at its status.
FindForReviewAnyStatus(w, op) ==
    /\ call[w].op = op
    /\ call[w].pc = "find"
    /\ \E dbOk \in BOOLEAN :
         IF ~dbOk THEN Respond(w, call[w], 500)
         ELSE IF call[w].id \notin DOMAIN accessRequests THEN Respond(w, call[w], 404)
         ELSE Continue(w, [call[w] EXCEPT !.pc = "update"])
    /\ UNCHANGED <<submitVars, signupVars, sideVars>>
    /\ UNCHANGED <<accessRequests, accessCodes, users, now, emailsSent, callsStarted>>

\* prisma.accessRequest.findUnique and the two checks on its result.
FindForReview(w, op) ==
    /\ call[w].op = op
    /\ call[w].pc = "find"
    /\ \E dbOk \in BOOLEAN :
         IF ~dbOk THEN Respond(w, call[w], 500)
         ELSE IF call[w].id \notin DOMAIN accessRequests THEN Respond(w, call[w], 404)
         ELSE IF accessRequests[call[w].id].status # "pending" THEN Respond(w, call[w], 400)
         ELSE Continue(w, [call[w] EXCEPT !.pc = "update"])
    /\ UNCHANGED <<submitVars, signupVars, sideVars>>
    /\ UNCHANGED <<accessRequests, accessCodes, users, now, emailsSent, callsStarted>>

ApproveFind(w) == FindForReview(w, "approve")

\* prisma.accessRequest.update({ where: { id }, data: { status: "approved", ... } })
ApproveUpdate(w) ==
    /\ call[w].op = "approve"
    /\ call[w].pc = "update"
    /\ \E dbOk \in BOOLEAN :
         IF ~dbOk
         THEN Respond(w, call[w], 500) /\ UNCHANGED accessRequests
         ELSE /\ accessRequests' =
                   [accessRequests EXCEPT ![call[w].id] =
                      [@ EXCEPT !.status = "approved", !.reviewedAt = Some(now),
                                !.reviewedBy = call[w].session]]
              /\ Respond(w, call[w], 200)
    /\ UNCHANGED <<submitVars, signupVars, sideVars>>
    /\ UNCHANGED <<accessCodes, users, now, emailsSent, callsStarted>>

\* [id]/reject POST up to its first storage call.
RejectStart(w) ==
    /\ CanStart(w)
    /\ \E session \in Sessions, id \in IdInputs, reason \in ReasonInputs :
         Enter(w, [Idle EXCEPT !.op = "reject", !.session = session, !.id = id,
                               !.reason = IF Authorize(session) = 0 THEN reason ELSE Null],
               Authorize(session), "find")
    /\ callsStarted' = callsStarted + 1
    /\ UNCHANGED <<submitVars, signupVars, sideVars>>
    /\ UNCHANGED <<accessRequests, accessCodes, users, now, emailsSent>>

RejectFind(w) == FindForReview(w, "reject")

\* prisma.accessRequest.update({ where: { id }, data: { status: "rejected", ... } })
RejectUpdate(w) ==
    /\ call[w].op = "reject"
    /\ call[w].pc = "update"
    /\ \E dbOk \in BOOLEAN :
         IF ~dbOk
         THEN Respond(w, call[w], 500) /\ UNCHANGED accessRequests
         ELSE /\ accessRequests' =
                   [accessRequests EXCEPT ![call[w].id] =
                      [@ EXCEPT !.status = "rejected", !.reviewedAt = Some(now),
                                !.reviewedBy = call[w].session,
                                !.rejectionReason = call[w].reason]]
              /\ Respond(w, call[w], 200)
    /\ UNCHANGED <<submitVars, signupVars, sideVars>>
    /\ UNCHANGED <<accessCodes, users, now, emailsSent, callsStarted>>

\* The checks the two batch routes start with: the session, then the body,
\* whose requestIds must be a non-empty array.
BatchStartStatus(session, ids) ==
    IF Authorize(session) # 0 THEN Authorize(session)
    ELSE IF ids = {} THEN 400
    ELSE 0

\* batch-approve POST up to its storage call.
BatchApproveStart(w) ==
    /\ CanStart(w)
    /\ \E session \in Sessions, ids \in SUBSET IdInputs :
         Enter(w, [Idle EXCEPT !.op = "batchApprove", !.session = session,
                               !.ids = IF Authorize(session) = 0 THEN ids ELSE {}],
               BatchStartStatus(session, ids), "updateMany")
    /\ callsStarted' = callsStarted + 1
    /\ UNCHANGED <<submitVars, signupVars, sideVars>>
    /\ UNCHANGED <<accessRequests, accessCodes, users, now, emailsSent>>

\* An updateMany without the status condition.
AllAmong(ids) == {i \in DOMAIN accessRequests : i \in ids}

\* prisma.accessRequest.updateMany({ where: { id: { in }, status: "pending" }, ... })
PendingAmong(ids) ==
    {i \in DOMAIN accessRequests : i \in ids /\ accessRequests[i].status = "pending"}

BatchApproveUpdateMany(w) ==
    /\ call[w].op = "batchApprove"
    /\ call[w].pc = "updateMany"
    /\ \E dbOk \in BOOLEAN :
         IF ~dbOk
         THEN Respond(w, call[w], 500) /\ UNCHANGED accessRequests
         ELSE /\ accessRequests' =
                   [i \in DOMAIN accessRequests |->
                      IF i \in PendingAmong(call[w].ids)
                      THEN [accessRequests[i] EXCEPT !.status = "approved",
                                                     !.reviewedAt = Some(now),
                                                     !.reviewedBy = call[w].session]
                      ELSE accessRequests[i]]
              /\ call' = [call EXCEPT ![w] = Idle]
              /\ response' = [Reply(call[w], 200) EXCEPT
                                !.count = Cardinality(PendingAmong(call[w].ids))]
    /\ UNCHANGED <<submitVars, signupVars, sideVars>>
    /\ UNCHANGED <<accessCodes, users, now, emailsSent, callsStarted>>

Review(w) ==
    \/ ApproveStart(w) \/ ApproveFind(w) \/ ApproveUpdate(w)
    \/ RejectStart(w) \/ RejectFind(w) \/ RejectUpdate(w)
    \/ BatchApproveStart(w) \/ BatchApproveUpdateMany(w)

----------------------------------------------------------------------------
(* batch-send-invitations POST *)

\* The end of one iteration of `for (const request of requests)`: on to the
\* next request, or to the 200 response after the last one.
NextItem(w, c) ==
    IF c.idx < Len(c.requests)
    THEN Continue(w, [c EXCEPT !.idx = c.idx + 1, !.pc = "existing", !.code = None,
                               !.attempts = 0, !.codeId = 0])
    ELSE Respond(w, c, 200)

\* A per-item failure that ends the whole call.
ItemErrorAborts(w, error) == Respond(w, call[w], 500)

\* errors.push({ requestId, email, error }); continue
ItemError(w, error) ==
    NextItem(w, [call[w] EXCEPT !.errors =
                   Append(@, [requestId |-> call[w].requests[call[w].idx],
                              error |-> error])])

\* results.push({ requestId, email, name, code, success: true })
ItemResult(w) ==
    NextItem(w, [call[w] EXCEPT !.results =
                   Append(@, [requestId |-> call[w].requests[call[w].idx],
                              code |-> accessCodes[call[w].codeId].code])])

\* Up to the first storage call: getSession, the role check, the body check.
BatchSendStart(w) ==
    /\ CanStart(w)
    /\ \E session \in Sessions, ids \in SUBSET IdInputs :
         Enter(w, [Idle EXCEPT !.op = "batchSendInvitations", !.session = session,
                               !.ids = IF Authorize(session) = 0 THEN ids ELSE {}],
               BatchStartStatus(session, ids), "load")
    /\ callsStarted' = callsStarted + 1
    /\ UNCHANGED <<submitVars, signupVars, sideVars>>
    /\ UNCHANGED <<accessRequests, accessCodes, users, now, emailsSent>>

\* A load that forgets the status filter.
AnyStatusAmong(ids) == {i \in DOMAIN accessRequests : i \in ids}

\* prisma.accessRequest.findMany({ where: { id: { in }, status: "approved" } })
ApprovedAmong(ids) ==
    {i \in DOMAIN accessRequests : i \in ids /\ accessRequests[i].status = "approved"}

BatchSendLoad(w) ==
    /\ call[w].op = "batchSendInvitations"
    /\ call[w].pc = "load"
    /\ \E dbOk \in BOOLEAN :
         IF ~dbOk THEN Respond(w, call[w], 500)
         ELSE IF ApprovedAmong(call[w].ids) = {} THEN Respond(w, call[w], 404)
         ELSE \E q \in Orders(ApprovedAmong(call[w].ids)) :
                Continue(w, [call[w] EXCEPT !.requests = q, !.idx = 1, !.pc = "existing"])
    /\ UNCHANGED <<submitVars, signupVars, sideVars>>
    /\ UNCHANGED <<accessRequests, accessCodes, users, now, emailsSent, callsStarted>>

\* prisma.accessCode.findFirst({ where: { accessRequestId: request.id } })
BatchSendExisting(w) ==
    /\ call[w].op = "batchSendInvitations"
    /\ call[w].pc = "existing"
    /\ \E dbOk \in BOOLEAN :
         IF ~dbOk THEN ItemError(w, "Processing failed")
         ELSE IF FindCodeByRequest(call[w].requests[call[w].idx]) # {}
         THEN ItemError(w, "Access code already generated")
         ELSE Continue(w, [call[w] EXCEPT !.pc = "generate"])
    /\ UNCHANGED <<submitVars, signupVars, sideVars>>
    /\ UNCHANGED <<accessRequests, accessCodes, users, now, emailsSent, callsStarted>>

\* A loop that makes one turn more before it gives up.
BatchSendGenerateOneMore(w) ==
    /\ call[w].op = "batchSendInvitations"
    /\ call[w].pc = "generate"
    /\ \E randomBytes \in RandomDraws, dbOk \in BOOLEAN :
         LET code == generateAccessCode(randomBytes) IN
         IF ~dbOk THEN ItemError(w, "Processing failed")
         ELSE IF FindCodeByString(code) = {}
         THEN Continue(w, [call[w] EXCEPT !.code = code, !.attempts = 0,
                                          !.pc = "create"])
         ELSE IF call[w].attempts < MaxAttempts
         THEN Continue(w, [call[w] EXCEPT !.attempts = @ + 1])
         ELSE ItemError(w, "Failed to generate unique code")
    /\ UNCHANGED <<submitVars, signupVars, sideVars>>
    /\ UNCHANGED <<accessRequests, accessCodes, users, now, emailsSent, callsStarted>>

\* One turn of `while (!isUnique && attempts < 10)`, and the check after the loop.
\* Of the locals, the model keeps what is read later: a candidate that collides
\* is overwritten by the next turn, and attempts is not read after the loop.
BatchSendGenerate(w) ==
    /\ call[w].op = "batchSendInvitations"
    /\ call[w].pc = "generate"
    /\ \E randomBytes \in RandomDraws, dbOk \in BOOLEAN :
         LET code == generateAccessCode(randomBytes) IN
         IF ~dbOk THEN ItemError(w, "Processing failed")
         ELSE IF FindCodeByString(code) = {}
         THEN Continue(w, [call[w] EXCEPT !.code = code, !.attempts = 0,
                                          !.pc = "create"])
         ELSE IF call[w].attempts + 1 < MaxAttempts
         THEN Continue(w, [call[w] EXCEPT !.attempts = @ + 1])
         ELSE ItemError(w, "Failed to generate unique code")
    /\ UNCHANGED <<submitVars, signupVars, sideVars>>
    /\ UNCHANGED <<accessRequests, accessCodes, users, now, emailsSent, callsStarted>>

\* prisma.accessCode.create({ data: { code, expiresAt, generatedBy, ... } })
BatchSendCreate(w) ==
    /\ call[w].op = "batchSendInvitations"
    /\ call[w].pc = "create"
    /\ \E dbOk \in BOOLEAN :
         LET row == NewCode(call[w].code, call[w].session, "user_request",
                            Some(call[w].requests[call[w].idx])) IN
         IF ~dbOk \/ ViolatesUnique(row)
         THEN ItemError(w, "Processing failed") /\ UNCHANGED accessCodes
         ELSE /\ accessCodes' = Append(accessCodes, row)
              /\ Continue(w, [call[w] EXCEPT !.pc = "email",
                                             !.codeId = Len(accessCodes) + 1])
    /\ UNCHANGED <<submitVars, signupVars, sideVars>>
    /\ UNCHANGED <<accessRequests, users, now, emailsSent, callsStarted>>

\* An e-mail step that gives up the batch when the dispatch fails.
BatchSendEmailStops(w) ==
    /\ call[w].op = "batchSendInvitations"
    /\ call[w].pc = "email"
    /\ \E delivered \in BOOLEAN :
         IF delivered
         THEN /\ emailsSent' = emailsSent \cup
                    {[to |-> accessRequests[call[w].requests[call[w].idx]].email,
                      code |-> accessCodes[call[w].codeId].code,
                      requestId |-> call[w].requests[call[w].idx]]}
              /\ ItemResult(w)
         ELSE /\ Respond(w, [call[w] EXCEPT !.errors =
                                Append(@, [requestId |-> call[w].requests[call[w].idx],
                                           error |-> "Email sending failed"])], 200)
              /\ UNCHANGED emailsSent
    /\ UNCHANGED <<submitVars, signupVars, sideVars>>
    /\ UNCHANGED <<accessRequests, accessCodes, users, now, callsStarted>>

\* resend.emails.send({ to: request.email, html: getInvitationEmailHtml(...) })
BatchSendEmail(w) ==
    /\ call[w].op = "batchSendInvitations"
    /\ call[w].pc = "email"
    /\ \E delivered \in BOOLEAN :
         IF delivered
         THEN /\ emailsSent' = emailsSent \cup
                    {[to |-> accessRequests[call[w].requests[call[w].idx]].email,
                      code |-> accessCodes[call[w].codeId].code,
                      requestId |-> call[w].requests[call[w].idx]]}
              /\ ItemResult(w)
         ELSE ItemError(w, "Email sending failed") /\ UNCHANGED emailsSent
    /\ UNCHANGED <<submitVars, signupVars, sideVars>>
    /\ UNCHANGED <<accessRequests, accessCodes, users, now, callsStarted>>

BatchSend(w) ==
    \/ BatchSendStart(w) \/ BatchSendLoad(w) \/ BatchSendExisting(w)
    \/ BatchSendGenerate(w) \/ BatchSendCreate(w) \/ BatchSendEmail(w)

----------------------------------------------------------------------------
(* Strings *)

LowerCaseLetters == <<"a","b","c","d","e","f","g","h","i","j","k","l","m",
                      "n","o","p","q","r","s","t","u","v","w","x","y","z">>
UpperCaseLetters == <<"A","B","C","D","E","F","G","H","I","J","K","L","M",
                      "N","O","P","Q","R","S","T","U","V","W","X","Y","Z">>

\* The place of a character in an alphabet, 0 when it is not in it.
IndexIn(alphabet, ch) ==
    IF \E k \in DOMAIN alphabet : alphabet[k] = ch
    THEN CHOOSE k \in DOMAIN alphabet : alphabet[k] = ch
    ELSE 0

\* String.prototype.toLowerCase and toUpperCase
toLowerCase(s) ==
    [i \in DOMAIN s |-> IF IndexIn(UpperCaseLetters, s[i]) # 0
                        THEN LowerCaseLetters[IndexIn(UpperCaseLetters, s[i])]
                        ELSE s[i]]

toUpperCase(s) ==
    [i \in DOMAIN s |-> IF IndexIn(LowerCaseLetters, s[i]) # 0
                        THEN UpperCaseLetters[IndexIn(LowerCaseLetters, s[i])]
                        ELSE s[i]]

Whitespace == {" ", "\t", "\n"}

\* /^[^\s@]+@[^\s@]+\.[^\s@]+$/.test(s)
emailRegex(s) ==
    \E i, j \in DOMAIN s :
        /\ 1 < i /\ i + 1 < j /\ j < Len(s)
        /\ s[i] = "@"
        /\ s[j] = "."
        /\ \A k \in DOMAIN s \ {i} : s[k] \notin Whitespace \cup {"@"}

----------------------------------------------------------------------------
(* request-access POST *)

MaxSubmits == 2              \* submissions received in one behaviour

AccessRequestPoints == 3     \* points of the access-request limiter
RateLimitDuration == 1       \* 60 * 60 * 24 s, in clock ticks
RateLimitBlockDuration == 1  \* 60 * 60 * 24 s, in clock ticks

SubmitIdle == [pc |-> "idle", email |-> <<>>, captchaToken |-> ""]

NoSubmitResponse == [status |-> 0, email |-> <<>>, error |-> "", requestId |-> 0]

\* The handler of worker w returns NextResponse.json(body, { status }).
SubmitRespond(w, c, status, error, requestId) ==
    /\ submit' = [submit EXCEPT ![w] = SubmitIdle]
    /\ submitResponse' = [status |-> status, email |-> c.email, error |-> error,
                          requestId |-> requestId]

\* The handler of worker w goes on to its next await.
SubmitContinue(w, c) ==
    /\ submit' = [submit EXCEPT ![w] = c]
    /\ UNCHANGED submitResponse

\* The e-mail addresses a body can carry: none, well-formed in two letter
\* cases, the address of an account, and one without a domain suffix.
EmailAUpper == <<"A", "@", "X", ".", "c", "o", "m">>
EmailInputs == {<<>>, EmailA, EmailAUpper, EmailB, <<"a", "@", "x">>}
\* body.name, of which the handler reads the length only.
NameLengths == {0, 1, 2, 256}
TokenInputs == {"", " ", "token"}

\* Checks that leave a missing token to the verification.
ValidateBodyNoToken(email, nameLength, captchaToken) ==
    IF email = <<>> \/ nameLength = 0 THEN "Email and name are required"
    ELSE IF ~emailRegex(email) THEN "Invalid email format"
    ELSE IF nameLength < 2 \/ nameLength > 255
    THEN "Name must be between 2 and 255 characters"
    ELSE ""

\* The checks on the body, in their order: the error of the 400, or "".
ValidateBody(email, nameLength, captchaToken) ==
    IF email = <<>> \/ nameLength = 0 THEN "Email and name are required"
    ELSE IF ~emailRegex(email) THEN "Invalid email format"
    ELSE IF nameLength < 2 \/ nameLength > 255
    THEN "Name must be between 2 and 255 characters"
    ELSE IF captchaToken = "" THEN "CAPTCHA token is required"
    ELSE ""

\* request.json() and the checks that need no await.
SubmitStart(w) ==
    /\ submit[w].pc = "idle"
    /\ submitsStarted < MaxSubmits
    /\ submitsStarted' = submitsStarted + 1
    /\ \E email \in EmailInputs, nameLength \in NameLengths, token \in TokenInputs :
         LET c == [pc |-> "captcha", email |-> email, captchaToken |-> token] IN
         IF ValidateBody(email, nameLength, token) # ""
         THEN SubmitRespond(w, [c EXCEPT !.captchaToken = ""], 400,
                            ValidateBody(email, nameLength, token), 0)
         ELSE SubmitContinue(w, c)
    /\ UNCHANGED <<accessRequests, accessCodes, users, now, adminVars, signupVars, sideVars>>
    /\ UNCHANGED <<captchaEnv, rateLimits>>

\* What the siteverify call may come to.
SiteverifyOutcomes ==
    {"success", "timeout-or-duplicate", "invalid-input-response", "bad-request",
     "other-error-code", "http-error", "network-error"}

trim(token) == IF token = " " THEN "" ELSE token

\* A verification that lets the request through when the service fails.
verifyTurnstileTokenFailOpen(token, outcome) ==
    IF ~captchaEnv.secretKey
    THEN IF captchaEnv.isDevelopment THEN "" ELSE "CAPTCHA configuration error"
    ELSE IF trim(token) = "" THEN "Invalid token format"
    ELSE IF outcome \in {"success", "http-error", "network-error"} THEN ""
    ELSE "CAPTCHA verification failed"

\* verifyTurnstileToken: the error of the result, or "" for success.
verifyTurnstileToken(token, outcome) ==
    IF ~captchaEnv.secretKey
    THEN IF captchaEnv.isDevelopment THEN "" ELSE "CAPTCHA configuration error"
    ELSE IF trim(token) = "" THEN "Invalid token format"
    ELSE CASE outcome = "network-error" -> "CAPTCHA verification error"
           [] outcome = "http-error" -> "CAPTCHA verification service error"
           [] outcome = "timeout-or-duplicate" -> "CAPTCHA token expired or already used"
           [] outcome = "invalid-input-response" -> "Invalid CAPTCHA token"
           [] outcome = "bad-request" -> "Invalid CAPTCHA request"
           [] outcome = "other-error-code" -> "CAPTCHA verification failed"
           [] outcome = "success" -> ""

\* await verifyTurnstileToken(captchaToken)
SubmitCaptcha(w) ==
    /\ submit[w].pc = "captcha"
    /\ \E outcome \in SiteverifyOutcomes :
         LET error == verifyTurnstileToken(submit[w].captchaToken, outcome) IN
         IF error # ""
         THEN SubmitRespond(w, [submit[w] EXCEPT !.captchaToken = ""], 400, error, 0)
         ELSE SubmitContinue(w, [submit[w] EXCEPT !.pc = "rateLimit", !.captchaToken = ""])
    /\ UNCHANGED <<accessRequests, accessCodes, users, now, adminVars, signupVars, sideVars>>
    /\ UNCHANGED <<captchaEnv, rateLimits, submitsStarted>>

\* limiter.consume(key, 1): a window that has run out starts again, and the
\* consumption that first exceeds the points blocks the key.
Consume(key) ==
    LET entry == IF key \in DOMAIN rateLimits /\ now < rateLimits[key].expiresAt
                 THEN rateLimits[key]
                 ELSE [consumed |-> 0, expiresAt |-> now + RateLimitDuration]
    IN  [consumed |-> entry.consumed + 1,
         expiresAt |-> IF entry.consumed = AccessRequestPoints
                       THEN now + RateLimitBlockDuration
                       ELSE entry.expiresAt]

\* A limiter that refuses the request when the store fails.
SubmitRateLimitFailsClosed(w) ==
    /\ submit[w].pc = "rateLimit"
    /\ \E redisOk \in BOOLEAN :
         LET key == toLowerCase(submit[w].email) IN
         IF ~redisOk
         THEN /\ SubmitRespond(w, submit[w], 429, "Too many requests", 0)
              /\ UNCHANGED rateLimits
         ELSE /\ rateLimits' = [k \in DOMAIN rateLimits \cup {key} |->
                                  IF k = key THEN Consume(key) ELSE rateLimits[k]]
              /\ IF Consume(key).consumed > AccessRequestPoints
                 THEN SubmitRespond(w, submit[w], 429, "Too many requests", 0)
                 ELSE SubmitContinue(w, [submit[w] EXCEPT !.pc = "findPending"])
    /\ UNCHANGED <<accessRequests, accessCodes, users, now, adminVars, signupVars, sideVars>>
    /\ UNCHANGED <<captchaEnv, submitsStarted>>

\* await checkRateLimit(limiter, email.toLowerCase()): allowed when the store
\* fails, refused with 429 when the points are exceeded.
SubmitRateLimit(w) ==
    /\ submit[w].pc = "rateLimit"
    /\ \E redisOk \in BOOLEAN :
         LET key == toLowerCase(submit[w].email) IN
         IF ~redisOk
         THEN /\ SubmitContinue(w, [submit[w] EXCEPT !.pc = "findPending"])
              /\ UNCHANGED rateLimits
         ELSE /\ rateLimits' = [k \in DOMAIN rateLimits \cup {key} |->
                                  IF k = key THEN Consume(key) ELSE rateLimits[k]]
              /\ IF Consume(key).consumed > AccessRequestPoints
                 THEN SubmitRespond(w, submit[w], 429, "Too many requests", 0)
                 ELSE SubmitContinue(w, [submit[w] EXCEPT !.pc = "findPending"])
    /\ UNCHANGED <<accessRequests, accessCodes, users, now, adminVars, signupVars, sideVars>>
    /\ UNCHANGED <<captchaEnv, submitsStarted>>

\* prisma.accessRequest.findFirst({ where: { email, status: "pending" } })
PendingOf(email) ==
    {i \in DOMAIN accessRequests :
        accessRequests[i].email = email /\ accessRequests[i].status = "pending"}

SubmitFindPending(w) ==
    /\ submit[w].pc = "findPending"
    /\ \E dbOk \in BOOLEAN :
         IF ~dbOk
         THEN SubmitRespond(w, submit[w], 500, "Failed to submit access request", 0)
         ELSE IF PendingOf(toLowerCase(submit[w].email)) # {}
         THEN SubmitRespond(w, submit[w], 409,
                            "You already have a pending access request", 0)
         ELSE SubmitContinue(w, [submit[w] EXCEPT !.pc = "findUser"])
    /\ UNCHANGED <<accessRequests, accessCodes, users, now, adminVars, signupVars, sideVars>>
    /\ UNCHANGED <<captchaEnv, rateLimits, submitsStarted>>

\* prisma.user.findUnique({ where: { email: email.toLowerCase() } })
SubmitFindUser(w) ==
    /\ submit[w].pc = "findUser"
    /\ \E dbOk \in BOOLEAN :
         IF ~dbOk
         THEN SubmitRespond(w, submit[w], 500, "Failed to submit access request", 0)
         ELSE IF toLowerCase(submit[w].email) \in users
         THEN SubmitRespond(w, submit[w], 409, "Account already exists", 0)
         ELSE SubmitContinue(w, [submit[w] EXCEPT !.pc = "create"])
    /\ UNCHANGED <<accessRequests, accessCodes, users, now, adminVars, signupVars, sideVars>>
    /\ UNCHANGED <<captchaEnv, rateLimits, submitsStarted>>

\* prisma.accessRequest.create({ data: { email: email.toLowerCase(), ... } })
SubmitCreate(w) ==
    /\ submit[w].pc = "create"
    /\ \E dbOk \in BOOLEAN :
         IF ~dbOk
         THEN /\ SubmitRespond(w, submit[w], 500, "Failed to submit access request", 0)
              /\ UNCHANGED accessRequests
         ELSE /\ accessRequests' =
                   Append(accessRequests, NewRequest(toLowerCase(submit[w].email)))
              /\ SubmitRespond(w, submit[w], 201, "", Len(accessRequests) + 1)
    /\ UNCHANGED <<accessCodes, users, now, adminVars, signupVars, sideVars>>
    /\ UNCHANGED <<captchaEnv, rateLimits, submitsStarted>>

Submit(w) ==
    \/ SubmitStart(w) \/ SubmitCaptcha(w) \/ SubmitRateLimit(w)
    \/ SubmitFindPending(w) \/ SubmitFindUser(w) \/ SubmitCreate(w)

----------------------------------------------------------------------------
(* Signup page, and the two public code endpoints it calls *)

MaxSignups == 2         \* signup forms submitted in one behaviour
MaxEdits == 2           \* changes of an access-code field in one behaviour

\* Two browsers have the page open.
Clients == {"s1", "s2"}

PageInit ==
    [pc |-> "mount", email |-> <<>>, accessCode |-> <<>>,
     codeValidationStatus |-> "idle", validating |-> {}, useCodeOk |-> FALSE,
     toast |-> ""]

\* The code of an invitation sent for request 1, not redeemed yet.
IssuedCode ==
    [code |-> generateAccessCode([i \in 1..CodeLength |-> 1]), isUsed |-> FALSE,
     usedByEmail |-> None, usedAt |-> None, expiresAt |-> InvitationTtl,
     generatedBy |-> "admin0", generationType |-> "user_request",
     accessRequestId |-> Some(1)]

\* What a visitor may type in the access-code field: the issued code in lower
\* case, the used code, one that was never issued, and a code that is too short.
UnknownCode == generateAccessCode([i \in 1..CodeLength |-> 2])
CodeInputs == {toLowerCase(IssuedCode.code), InviteCode.code, UnknownCode, <<"B">>}

\* The query string of the page's URL: no parameter, or one.
NoParams == [name |-> "", value |-> <<>>]

\* getInvitationEmailHtml: the query string of invitationUrl,
\* `${betterAuthUrl}/auth/signup?code=${accessCode}`.
invitationUrl(accessCode) == [name |-> "code", value |-> accessCode]

\* The URLs the page is opened with: the plain one, the link of the invitation
\* e-mail, and one that names the parameter accessCode.
UrlInputs ==
    {NoParams, invitationUrl(IssuedCode.code),
     [name |-> "accessCode", value |-> IssuedCode.code]}

\* searchParams.get(name): <<>> stands for null.
searchParamsGet(params, name) == IF params.name = name THEN params.value ELSE <<>>

\* validateAccessCode(code) up to its fetch: the page's state after it.
validateAccessCode(p, code) ==
    IF code = <<>> \/ Len(code) # 12
    THEN [p EXCEPT !.codeValidationStatus = "invalid"]
    ELSE [p EXCEPT !.codeValidationStatus = "validating",
                   !.validating = @ \cup {code}]

\* useEffect(() => { const codeFromUrl = searchParams.get("accessCode"); ... })
\* on a page opened with the query string params.
useEffectMount(c, params) ==
    /\ page[c].pc = "mount"
    /\ LET codeFromUrl == searchParamsGet(params, "accessCode") IN
       page' = [page EXCEPT ![c] =
                  IF codeFromUrl # <<>>
                  THEN validateAccessCode([page[c] EXCEPT !.pc = "form",
                                                          !.accessCode = codeFromUrl],
                                          codeFromUrl)
                  ELSE [page[c] EXCEPT !.pc = "form"]]
    /\ UNCHANGED <<accessRequests, accessCodes, users, now, adminVars, submitVars, sideVars>>
    /\ UNCHANGED <<signupsStarted, codeEdits>>

Mount(c) == \E params \in UrlInputs : useEffectMount(c, params)

\* The page opened by a click on the link of an invitation e-mail.
OpenInvitation(c) ==
    \E k \in DOMAIN accessCodes : useEffectMount(c, invitationUrl(accessCodes[k].code))

\* handleAccessCodeChange(value)
handleAccessCodeChange(c) ==
    /\ page[c].pc = "form"
    /\ codeEdits < MaxEdits
    /\ codeEdits' = codeEdits + 1
    /\ \E value \in CodeInputs :
         LET upperValue == toUpperCase(value) IN
         /\ upperValue # page[c].accessCode
         /\ page' = [page EXCEPT ![c] =
                       IF Len(upperValue) = 12
                       THEN validateAccessCode([page[c] EXCEPT !.accessCode = upperValue],
                                               upperValue)
                       ELSE [page[c] EXCEPT !.accessCode = upperValue,
                                            !.codeValidationStatus = "idle"]]
    /\ UNCHANGED <<accessRequests, accessCodes, users, now, adminVars, submitVars, sideVars>>
    /\ UNCHANGED signupsStarted

\* The stored code with the given code string.
CodeRow(code) == accessCodes[CHOOSE i \in FindCodeByString(code) : TRUE]

\* validate(codeString): a read-only check, "" when the code is valid.
validate(code) ==
    IF FindCodeByString(code) = {} THEN "NotFound"
    ELSE IF CodeRow(code).isUsed THEN "AlreadyUsed"
    ELSE IF now >= CodeRow(code).expiresAt THEN "Expired"
    ELSE ""

\* A status filter that takes a code for expired only after its expiry time.
whereStatusStrict(statusFilter, row) ==
    CASE statusFilter = "unused" -> ~row.isUsed /\ row.expiresAt > now
      [] statusFilter = "used" -> row.isUsed
      [] statusFilter = "expired" -> ~row.isUsed /\ row.expiresAt < now
      [] OTHER -> TRUE

\* admin/access-codes GET: the where clause of its status filter, on a row.
whereStatus(statusFilter, row) ==
    CASE statusFilter = "unused" -> ~row.isUsed /\ row.expiresAt > now
      [] statusFilter = "used" -> row.isUsed
      [] statusFilter = "expired" -> ~row.isUsed /\ row.expiresAt <= now
      [] OTHER -> TRUE

\* A validation that consumes the code it finds valid.
ValidateReturnsConsumes(c) ==
    /\ page[c].pc # "dashboard"
    /\ \E code \in page[c].validating, fetched \in BOOLEAN :
         /\ page' = [page EXCEPT ![c] =
                       [@ EXCEPT !.validating = @ \ {code},
                                 !.codeValidationStatus =
                                     IF fetched /\ validate(code) = "" THEN "valid"
                                     ELSE "invalid"]]
         /\ accessCodes' = [i \in CodeIds |->
                              IF fetched /\ validate(code) = "" /\ accessCodes[i].code = code
                              THEN [accessCodes[i] EXCEPT !.isUsed = TRUE]
                              ELSE accessCodes[i]]
    /\ UNCHANGED <<accessRequests, users, now, adminVars, submitVars, sideVars>>
    /\ UNCHANGED <<signupsStarted, codeEdits>>

\* The answer of validate-access-code reaches validateAccessCode, or its fetch
\* throws: the status shown is that of the answer that came last.
ValidateReturns(c) ==
    /\ page[c].pc # "dashboard"
    /\ \E code \in page[c].validating, fetched \in BOOLEAN :
         page' = [page EXCEPT ![c] =
                    [@ EXCEPT !.validating = @ \ {code},
                              !.codeValidationStatus =
                                  IF fetched /\ validate(code) = "" THEN "valid"
                                  ELSE "invalid"]]
    /\ UNCHANGED <<accessRequests, accessCodes, users, now, adminVars, submitVars, sideVars>>
    /\ UNCHANGED <<signupsStarted, codeEdits>>

\* The form as it stands when it is submitted.
SignupEmails == {<<>>, EmailA, EmailB}
PasswordLengths == {0, 7, 8}

\* The checks of handleSignup before its first fetch: the toast, or "".
CheckForm(p, email, passwordLength, named) ==
    IF email = <<>> \/ passwordLength = 0 \/ ~named \/ p.accessCode = <<>>
    THEN "Please fill in all fields"
    ELSE IF p.codeValidationStatus # "valid" THEN "Please provide a valid access code"
    ELSE IF passwordLength < 8 THEN "Password must be at least 8 characters"
    ELSE ""

\* A handler that takes the earlier answer of validate for the redemption.
handleSignupTrustsValidate(c) ==
    /\ page[c].pc = "form"
    /\ signupsStarted < MaxSignups
    /\ signupsStarted' = signupsStarted + 1
    /\ \E email \in SignupEmails, passwordLength \in PasswordLengths, named \in BOOLEAN :
         LET error == CheckForm(page[c], email, passwordLength, named) IN
         page' = [page EXCEPT ![c] =
                    IF error # ""
                    THEN [@ EXCEPT !.toast = error, !.useCodeOk = FALSE, !.email = <<>>]
                    ELSE [@ EXCEPT !.pc = "signUp", !.email = email, !.toast = "",
                                   !.useCodeOk = TRUE]]
    /\ UNCHANGED <<accessRequests, accessCodes, users, now, adminVars, submitVars, sideVars>>
    /\ UNCHANGED codeEdits

\* handleSignup up to the fetch of use-access-code.
handleSignup(c) ==
    /\ page[c].pc = "form"
    /\ signupsStarted < MaxSignups
    /\ signupsStarted' = signupsStarted + 1
    /\ \E email \in SignupEmails, passwordLength \in PasswordLengths, named \in BOOLEAN :
         LET error == CheckForm(page[c], email, passwordLength, named) IN
         page' = [page EXCEPT ![c] =
                    IF error # ""
                    THEN [@ EXCEPT !.toast = error, !.useCodeOk = FALSE, !.email = <<>>]
                    ELSE [@ EXCEPT !.pc = "useCode", !.email = email, !.toast = "",
                                   !.useCodeOk = FALSE]]
    /\ UNCHANGED <<accessRequests, accessCodes, users, now, adminVars, submitVars, sideVars>>
    /\ UNCHANGED codeEdits

\* A page that goes on to the account creation whatever the answer.
UseCodeResponseIgnored(p, error) == [p EXCEPT !.pc = "signUp", !.useCodeOk = (error = "")]

\* if (!useCodeResponse.ok) { toast.error(data.error ...); return; }
UseCodeResponse(p, error) ==
    IF error # ""
    THEN [p EXCEPT !.pc = "form", !.toast = error]
    ELSE [p EXCEPT !.pc = "signUp", !.useCodeOk = TRUE]

\* use-access-code, first half: redeem re-validates the code. The fetch may
\* fail before the request is served.
RedeemValidate(c) ==
    /\ page[c].pc = "useCode"
    /\ \E fetched \in BOOLEAN :
         page' = [page EXCEPT ![c] =
                    IF ~fetched THEN [@ EXCEPT !.pc = "form", !.toast = "Failed to fetch"]
                    ELSE IF validate(page[c].accessCode) # ""
                    THEN UseCodeResponse(@, validate(page[c].accessCode))
                    ELSE [@ EXCEPT !.pc = "redeemUpdate"]]
    /\ UNCHANGED <<accessRequests, accessCodes, users, now, adminVars, submitVars, sideVars>>
    /\ UNCHANGED <<signupsStarted, codeEdits>>

\* UPDATE ... WHERE code = ... AND is_used = false: the rows it changes.
UnusedWithCode(code) == {i \in FindCodeByString(code) : ~accessCodes[i].isUsed}

\* use-access-code, second half: the conditional update, whose row count tells
\* the loser of a race; then the page reads the answer.
RedeemUpdate(c) ==
    /\ page[c].pc = "redeemUpdate"
    /\ LET rows == UnusedWithCode(page[c].accessCode) IN
         /\ accessCodes' = [i \in CodeIds |->
                              IF i \in rows
                              THEN [accessCodes[i] EXCEPT !.isUsed = TRUE,
                                                          !.usedByEmail = Some(page[c].email),
                                                          !.usedAt = Some(now)]
                              ELSE accessCodes[i]]
         /\ page' = [page EXCEPT ![c] =
                       UseCodeResponse(@, IF rows = {} THEN "AlreadyUsed" ELSE "")]
    /\ UNCHANGED <<accessRequests, users, now, adminVars, submitVars, sideVars>>
    /\ UNCHANGED <<signupsStarted, codeEdits>>

\* How authClient.signUp.email may end: the account is created, the call
\* resolves with an error in its result, or it throws.
SignUpOutcomes == {"created", "error", "throws"}

\* await authClient.signUp.email({ email, password, name }): the result is not
\* read; a throw goes to the catch.
SignUpEmail(c) ==
    /\ page[c].pc = "signUp"
    /\ \E outcome \in SignUpOutcomes :
         /\ outcome = "created" => page[c].email \notin users
         /\ users' = IF outcome = "created" THEN users \cup {page[c].email} ELSE users
         /\ page' = [page EXCEPT ![c] =
                       IF outcome = "throws"
                       THEN [@ EXCEPT !.pc = "form", !.toast = "Failed to create account"]
                       ELSE [@ EXCEPT !.pc = "trackLogin"]]
    /\ UNCHANGED <<accessRequests, accessCodes, now, adminVars, submitVars, sideVars>>
    /\ UNCHANGED <<signupsStarted, codeEdits>>

\* await fetch(track-login), then toast.success and router.push("/dashboard").
TrackLogin(c) ==
    /\ page[c].pc = "trackLogin"
    /\ \E fetched \in BOOLEAN :
         page' = [page EXCEPT ![c] =
                    IF fetched
                    THEN [@ EXCEPT !.pc = "dashboard",
                                   !.toast = "Account created successfully!"]
                    ELSE [@ EXCEPT !.pc = "form", !.toast = "Failed to fetch"]]
    /\ UNCHANGED <<accessRequests, accessCodes, users, now, adminVars, submitVars, sideVars>>
    /\ UNCHANGED <<signupsStarted, codeEdits>>

Signup(c) ==
    \/ Mount(c) \/ handleAccessCodeChange(c) \/ ValidateReturns(c) \/ handleSignup(c)
    \/ RedeemValidate(c) \/ RedeemUpdate(c) \/ SignUpEmail(c) \/ TrackLogin(c)

----------------------------------------------------------------------------
(* Specifications *)

\* The admin routes, on tables that hold requests already.
Next == Tick \/ \E w \in Workers : Review(w) \/ BatchSend(w)

Spec == Init /\ [][Next]_vars

\* The tables and the handlers after a reject of request 1 has read the request
\* as pending and, before its update, an approve of the same request has
\* completed: the request is approved and the reject is about to write.
InitRejectInFlight ==
    /\ accessRequests =
         [i \in RequestIds |->
            IF i = 1
            THEN [NewRequest(EmailOf(i)) EXCEPT !.status = "approved",
                                                !.reviewedAt = Some(0),
                                                !.reviewedBy = "admin1"]
            ELSE NewRequest(EmailOf(i))]
    /\ accessCodes = <<InviteCode>>
    /\ users = {}
    /\ now = 0
    /\ emailsSent = {}
    /\ call = [w \in Workers |->
                 IF w = "w1"
                 THEN [Idle EXCEPT !.op = "reject", !.pc = "update",
                                   !.session = "admin1", !.id = 1,
                                   !.reason = "spam"]
                 ELSE Idle]
    /\ callsStarted = 0
    /\ response = Reply([Idle EXCEPT !.op = "approve", !.session = "admin1",
                                     !.id = 1], 200)
    /\ SubmitQuiet
    /\ SignupIdle
    /\ SideIdle

SpecRejectInFlight == InitRejectInFlight /\ [][Next]_vars

\* The request-access route, on empty access_requests and one account.
InitSubmit ==
    /\ accessRequests = <<>>
    /\ accessCodes = <<>>
    /\ users = {EmailB}
    /\ now = 0
    /\ AdminIdle
    /\ captchaEnv \in [secretKey : BOOLEAN, isDevelopment : BOOLEAN]
    /\ rateLimits \in {<<>>, [k \in {EmailA} |->
                               [consumed |-> AccessRequestPoints,
                                expiresAt |-> RateLimitDuration]]}
    /\ submit = [w \in Workers |-> SubmitIdle]
    /\ submitsStarted = 0
    /\ submitResponse = NoSubmitResponse
    /\ SignupIdle
    /\ SideIdle

NextSubmit == Tick \/ \E w \in Workers : Submit(w)

SpecSubmit == InitSubmit /\ [][NextSubmit]_vars

\* The signup pages, once request 1 is approved and its invitation is sent.
InitSignup ==
    /\ accessRequests = [i \in RequestIds |-> IF i = 1 THEN ApprovedRequest(EmailOf(i))
                                                       ELSE NewRequest(EmailOf(i))]
    /\ accessCodes = <<InviteCode, IssuedCode>>
    /\ users = {}
    /\ now = 0
    /\ AdminIdle
    /\ SubmitQuiet
    /\ page = [c \in Clients |-> PageInit]
    /\ signupsStarted = 0
    /\ codeEdits = 0
    /\ SideIdle

NextSignup == Tick \/ \E c \in Clients : Signup(c)

SpecSignup == InitSignup /\ [][NextSignup]_vars

----------------------------------------------------------------------------
(* Helpers of the properties *)

\* The ids of the entries of a results or errors array.
Ids(q) == {q[k].requestId : k \in DOMAIN q}

\* How many entries of the array are about request i.
Count(q, i) == Cardinality({k \in DOMAIN q : q[k].requestId = i})

IsBatchSend(r) == r.op = "batchSendInvitations"

\* The request a batch-send handler is working on.
Current(w) == call[w].requests[call[w].idx]

InLoop(w) ==
    /\ call[w].op = "batchSendInvitations"
    /\ call[w].pc \in {"existing", "generate", "create", "email"}

\* The errors and results of handler w after a step of it: in its locals while
\* it goes on, in the response once it has returned.
ErrorsAfter(w) == IF call'[w].pc = "idle" THEN response'.errors ELSE call'[w].errors
ResultsAfter(w) == IF call'[w].pc = "idle" THEN response'.results ELSE call'[w].results

Steps(w) == call'[w] # call[w]

----------------------------------------------------------------------------
(* C2: once the status of an access request has left pending it never changes
   again, under any interleaving of approve, reject and batchApprove. The two
   single-request routes read the status and write it in separate storage
   calls, so an approve and a reject of the same pending request both pass the
   check and the later write replaces the earlier decision. *)
C2_StatusFinal ==
    [][\A i \in DOMAIN accessRequests :
         accessRequests[i].status # "pending"
           => accessRequests'[i].status = accessRequests[i].status]_vars

(* C3: no two stored access codes share a code string, used and expired codes
   included, and an insert whose code string is already stored leaves the table
   as it is and is recorded as an error of its item. *)
C3_UniqueCodeStrings ==
    /\ [](\A i, j \in CodeIds : i # j => accessCodes[i].code # accessCodes[j].code)
    /\ [][\A w \in Workers :
            (call[w].pc = "create" /\ Steps(w) /\ FindCodeByString(call[w].code) # {})
              => /\ accessCodes' = accessCodes
                 /\ Current(w) \in Ids(ErrorsAfter(w))
                 /\ Current(w) \notin Ids(ResultsAfter(w))]_vars

\* Two handlers found the same candidate free; one has inserted it, the other
\* is about to, next to the used code of the earlier invitation.
C3_Witness ==
    \E w \in Workers :
        /\ call[w].pc = "create"
        /\ \E i \in FindCodeByString(call[w].code) :
              accessCodes[i].accessRequestId # Some(Current(w))
        /\ \E i \in CodeIds : accessCodes[i].isUsed

(* C5: at most one access code references a given access request, and an
   issuance for a request that already has a linked code creates no code and
   is recorded for its item as "Access code already generated". *)
C5_OneCodePerRequest ==
    /\ [](\A r \in DOMAIN accessRequests : Cardinality(FindCodeByRequest(r)) <= 1)
    /\ [][\A w \in Workers :
            (call[w].pc = "create" /\ Steps(w) /\ FindCodeByRequest(Current(w)) # {})
              => /\ accessCodes' = accessCodes
                 /\ \E k \in DOMAIN ErrorsAfter(w) :
                       /\ ErrorsAfter(w)[k].requestId = Current(w)
                       /\ ErrorsAfter(w)[k].error = "Access code already generated"]_vars

\* The requests a response of batchSendInvitations has processed.
Processed(r) == {r.requests[k] : k \in DOMAIN r.requests}

\* The ids among a set whose request is approved in the current state.
Approved(ids) ==
    {i \in ids : i \in DOMAIN accessRequests /\ accessRequests[i].status = "approved"}

(* C7 as stated: every id given to batchSendInvitations whose request is not
   approved has an entry in errors, and the call returns results and errors. *)
C7_NotApprovedInErrors ==
    IsBatchSend(response) /\ response.status \in {200, 404}
      => /\ response.status = 200
         /\ \A i \in response.ids \ Processed(response) : i \in Ids(response.errors)

(* C7 amended: the load drops the ids whose request is not approved, without
   an entry in errors or results; the approved ones are processed, each with an
   entry; the call answers 200 with results and errors when at least one id is
   approved at the load, and 404 when none is. *)
C7_NotApprovedSkipped ==
    /\ [][\A w \in Workers :
            (call[w].pc = "load" /\ Steps(w))
              => /\ call'[w].pc = "existing"
                      => /\ Approved(call[w].ids) # {}
                         /\ {call'[w].requests[k] : k \in DOMAIN call'[w].requests}
                              = Approved(call[w].ids)
                 /\ call'[w].pc = "idle"
                      => /\ response'.status \in {404, 500}
                         /\ response'.status = 404 => Approved(call[w].ids) = {}
                         /\ response'.results = <<>> /\ response'.errors = <<>>]_vars
    /\ [](IsBatchSend(response) /\ response.status = 200
            => Ids(response.results) \cup Ids(response.errors) = Processed(response))

\* A 200 response to ids of which one was approved and one was not.
C7_Witness ==
    /\ IsBatchSend(response)
    /\ response.status = 200
    /\ response.ids \ Processed(response) # {}
    /\ response.ids \ Processed(response) \subseteq DOMAIN accessRequests
    /\ Ids(response.results) # {}

(* C8: a failure of one item (code already issued, generation exhausted,
   storage error, e-mail failure) never fails the call: once the requests are
   loaded the call answers 200, and every request it loaded as approved has
   exactly one entry, in results or in errors. *)
C8_PerItemOutcome ==
    /\ [](IsBatchSend(response) /\ response.status = 200
            => /\ Ids(response.results) \cup Ids(response.errors) = Processed(response)
               /\ \A i \in Processed(response) :
                     Count(response.results, i) + Count(response.errors, i) = 1)
    /\ [](\A w \in Workers : InLoop(w) =>
            \A k \in 1..(call[w].idx - 1) :
               Count(call[w].results, call[w].requests[k])
                 + Count(call[w].errors, call[w].requests[k]) = 1)
    /\ [][\A w \in Workers :
            InLoop(w) /\ call'[w].pc = "idle" => response'.status = 200]_vars

\* A response with a failed first item and a successful second one.
C8_Witness ==
    /\ IsBatchSend(response)
    /\ response.status = 200
    /\ Len(response.requests) = 2
    /\ response.requests[1] \in Ids(response.errors)
    /\ response.requests[2] \in Ids(response.results)

(* C9: when the e-mail dispatch of an item fails, the access code created for
   the item stays stored and unchanged, the item is recorded in errors and not
   in results, and the handler goes on to the next item. *)
C9_EmailFailureKeepsCode ==
    /\ [][\A i \in CodeIds : i \in DOMAIN accessCodes' /\ accessCodes'[i] = accessCodes[i]]_vars
    /\ [][\A w \in Workers :
            (call[w].pc = "email" /\ Steps(w) /\ emailsSent' = emailsSent)
              => /\ {i \in DOMAIN accessCodes' :
                      accessCodes'[i].accessRequestId = Some(Current(w))} = {call[w].codeId}
                 /\ \E k \in DOMAIN ErrorsAfter(w) :
                       /\ ErrorsAfter(w)[k].requestId = Current(w)
                       /\ ErrorsAfter(w)[k].error = "Email sending failed"
                 /\ Current(w) \notin Ids(ResultsAfter(w))
                 /\ call[w].idx < Len(call[w].requests)
                      => /\ call'[w].pc = "existing"
                         /\ call'[w].idx = call[w].idx + 1]_vars
    /\ [](IsBatchSend(response) /\ response.status = 200
            => \A k \in DOMAIN response.errors :
                  response.errors[k].error = "Email sending failed"
                    => /\ FindCodeByRequest(response.errors[k].requestId) # {}
                       /\ response.errors[k].requestId \notin Ids(response.results))

\* The e-mail of the first item failed, its code is stored, and the second
\* item was processed after it.
C9_Witness ==
    /\ IsBatchSend(response)
    /\ response.status = 200
    /\ Len(response.requests) = 2
    /\ Len(response.errors) = 2
    /\ response.errors[1] = [requestId |-> response.requests[1],
                             error |-> "Email sending failed"]
    /\ FindCodeByRequest(response.requests[1]) # {}
    /\ response.errors[2].requestId = response.requests[2]

(* C10: the four admin routes change no access request, create no access code
   and send no e-mail unless the session's role is admin: without a session
   they answer 401, with another role 403, and they reach no storage call. *)
C10_AdminOnly ==
    /\ [](\A w \in Workers :
            call[w].pc # "idle" => call[w].session # NoSession /\ Role(call[w].session) = "admin")
    /\ [](response.op # "none" =>
            /\ response.session = NoSession => response.status = 401
            /\ response.session \in Members => response.status = 403
            /\ response.status \in {401, 403} => response.session \notin Admins)
    /\ [][(accessRequests' # accessRequests \/ accessCodes' # accessCodes
             \/ emailsSent' # emailsSent)
            => \E w \in Workers :
                  /\ Steps(w)
                  /\ call[w].pc # "idle"
                  /\ Role(call[w].session) = "admin"]_vars
    /\ [][\A w \in Workers :
            (call[w].pc = "idle" /\ Steps(w) /\ call'[w].pc = "idle"
               /\ response'.status \in {401, 403})
              => UNCHANGED <<accessRequests, accessCodes, emailsSent>>]_vars

\* A member was refused by the invitation route after an admin was served.
C10_Witness ==
    /\ response.op = "batchSendInvitations"
    /\ response.session \in Members
    /\ response.status = 403
    /\ emailsSent # {}


----------------------------------------------------------------------------
(* Properties of the signup pages and of the request-access route *)

\* A step of the redemption that page c has asked for.
RedeemSteps(c) ==
    /\ page[c].pc \in {"useCode", "redeemUpdate"}
    /\ page'[c].pc # page[c].pc

\* The stored codes whose code string is in the field of page c.
CodesOf(c) == FindCodeByString(page[c].accessCode)

(* C1: under any interleaving of redemptions of one valid code, with any
   e-mails, exactly one succeeds and marks the code used for its e-mail; every
   other one is answered AlreadyUsed and its page stops before the account
   creation; a redemption of a used code is always answered AlreadyUsed and
   changes nothing; a used code stays used, with the e-mail and time of its
   redemption. *)
C1_AtMostOnceRedemption ==
    /\ [][\A i \in CodeIds :
            accessCodes[i].isUsed
              => i \in DOMAIN accessCodes' /\ accessCodes'[i] = accessCodes[i]]_vars
    /\ [][\A c \in Clients :
            (RedeemSteps(c) /\ page'[c].pc = "signUp")
              => /\ page'[c].useCodeOk
                 /\ \E i \in CodesOf(c) :
                       /\ ~accessCodes[i].isUsed
                       /\ accessCodes' =
                            [accessCodes EXCEPT ![i] =
                               [@ EXCEPT !.isUsed = TRUE,
                                         !.usedByEmail = Some(page[c].email),
                                         !.usedAt = Some(now)]]]_vars
    /\ [][\A c \in Clients :
            (RedeemSteps(c) /\ \E i \in CodesOf(c) : accessCodes[i].isUsed)
              => /\ accessCodes' = accessCodes
                 /\ page'[c].pc = "form"
                 /\ ~page'[c].useCodeOk
                 /\ \/ page'[c].toast = "AlreadyUsed"
                    \/ page[c].pc = "useCode" /\ page'[c].toast = "Failed to fetch"]_vars
    /\ [][\A c \in Clients :
            (page[c].pc = "redeemUpdate" /\ RedeemSteps(c)
               /\ \E i \in CodesOf(c) : ~accessCodes[i].isUsed)
              => page'[c].pc = "signUp"]_vars
    /\ [](\A c \in Clients :
            page[c].pc \in {"signUp", "trackLogin"}
              => /\ page[c].useCodeOk
                 /\ \E i \in CodesOf(c) :
                       /\ accessCodes[i].isUsed
                       /\ accessCodes[i].usedByEmail = Some(page[c].email)
                 /\ \A d \in Clients \ {c} :
                       page[d].pc \in {"signUp", "trackLogin"}
                         => page[d].accessCode # page[c].accessCode)

\* Two pages asked to redeem the issued code with different e-mails: one went
\* on with the code marked for its e-mail, the other was told AlreadyUsed.
C1_Witness ==
    \E c, d \in Clients :
        /\ page[c].useCodeOk
        /\ page[c].pc \in {"signUp", "trackLogin", "dashboard"}
        /\ page[d].pc = "form"
        /\ page[d].toast = "AlreadyUsed"
        /\ page[d].accessCode = page[c].accessCode
        /\ page[d].email # page[c].email
        /\ \E i \in CodesOf(c) : /\ accessCodes[i].accessRequestId # None
                                   /\ accessCodes[i].usedByEmail = Some(page[c].email)

(* C4: in every reachable state at most one pending access request exists per
   lower-cased e-mail, also when two submissions of the same e-mail, in any
   letter case, run at the same time. The route looks for a pending request
   and creates the new one in separate storage calls, and no unique index
   guards the pair, so two submissions both find none and both create. *)
C4_OnePendingPerEmail ==
    \A i, j \in DOMAIN accessRequests :
        (/\ i # j
         /\ accessRequests[i].status = "pending"
         /\ accessRequests[j].status = "pending")
          => toLowerCase(accessRequests[i].email) # toLowerCase(accessRequests[j].email)

\* A signup attempt of page c has ended.
AttemptEnded(c) == page[c].pc \in {"form", "dashboard"} /\ page[c].toast # ""

\* The attempt of page c has marked a code used for its e-mail, and no account
\* exists for that e-mail.
RedeemedWithoutAccount(c) ==
    /\ page[c].useCodeOk
    /\ \E i \in CodesOf(c) : /\ accessCodes[i].isUsed
                               /\ accessCodes[i].usedByEmail = Some(page[c].email)
    /\ page[c].email \notin users

(* C6: no signup attempt ends with its code marked used, no account for the
   e-mail the code was used by, and no failure reported: the page then shows an
   error, never the success message. The page does not read the result of
   signUp.email, so a creation that resolves with an error is followed by
   "Account created successfully!" while the code stays used. *)
C6_PartialFailureReported ==
    \A c \in Clients :
        AttemptEnded(c) /\ RedeemedWithoutAccount(c)
          => page[c].toast # "Account created successfully!"


\* An answer of validate-access-code for the code reaches page c.
ValidateAnswers(c, code) ==
    /\ code \in page[c].validating
    /\ page'[c].validating = page[c].validating \ {code}

(* C11: a code is redeemable only while it is unused and the time is strictly
   before expiresAt. For an unused code whose expiresAt is not in the future
   validate answers Expired, the page shows the code as invalid, the admin list
   counts it as expired and not as unused, and a redemption of it is answered
   Expired and changes nothing; a redemption reaches its update only for a
   code it found unused and unexpired, and succeeds only through that update. *)
C11_RedeemableWhileUnexpired ==
    /\ [](\A i \in CodeIds :
            /\ whereStatus("expired", accessCodes[i])
                 <=> validate(accessCodes[i].code) = "Expired"
            /\ whereStatus("unused", accessCodes[i])
                 <=> validate(accessCodes[i].code) = ""
            /\ (~accessCodes[i].isUsed /\ now >= accessCodes[i].expiresAt)
                 => validate(accessCodes[i].code) = "Expired")
    /\ [][\A c \in Clients : \A i \in CodeIds :
            (ValidateAnswers(c, accessCodes[i].code)
               /\ whereStatus("expired", accessCodes[i]))
              => /\ page'[c].codeValidationStatus = "invalid"
                 /\ accessCodes' = accessCodes]_vars
    /\ [][\A c \in Clients :
            (RedeemSteps(c) /\ page[c].pc = "useCode"
               /\ \E i \in CodesOf(c) : whereStatus("expired", accessCodes[i]))
              => /\ accessCodes' = accessCodes
                 /\ page'[c].pc = "form"
                 /\ page'[c].toast \in {"Expired", "Failed to fetch"}]_vars
    /\ [][\A c \in Clients :
            /\ (page[c].pc = "useCode" /\ page'[c].pc = "redeemUpdate")
                 => \E i \in CodesOf(c) : whereStatus("unused", accessCodes[i])
            /\ (page[c].pc # "signUp" /\ page'[c].pc = "signUp")
                 => page[c].pc = "redeemUpdate"]_vars

\* A page whose code was valid when it was typed asked to redeem it a day
\* later: the code is unused and expired, and the answer was Expired.
C11_Witness ==
    \E c \in Clients :
        /\ page[c].pc = "form"
        /\ page[c].toast = "Expired"
        /\ page[c].codeValidationStatus = "valid"
        /\ \E i \in CodesOf(c) : whereStatus("expired", accessCodes[i])


\* Page c starts a validation or reads the answer of one.
ValidateSteps(c) ==
    \/ page'[c].validating # page[c].validating
    \/ page'[c].codeValidationStatus # page[c].codeValidationStatus

\* The code strings a validation or a redemption may be asked about.
CodeStrings == {accessCodes[i].code : i \in CodeIds} \cup CodeInputs

(* C12: validate, called any number of times for any code string and between
   any other steps, changes no stored access code, access request or account,
   and what a later redeem of any code would answer and update is the same
   after the call as before it. *)
C12_ValidateReadOnly ==
    [][\A c \in Clients :
         ValidateSteps(c)
           => /\ accessCodes' = accessCodes
              /\ accessRequests' = accessRequests
              /\ users' = users
              /\ \A code \in CodeStrings :
                    /\ validate(code)' = validate(code)
                    /\ UnusedWithCode(code)' = UnusedWithCode(code)]_vars

\* Two pages validated the issued code, both were told it is valid, and one
\* of them has redeemed it since.
C12_Witness ==
    \E c, d \in Clients :
        /\ c # d
        /\ page[c].useCodeOk
        /\ page[c].pc = "signUp"
        /\ page[d].codeValidationStatus = "valid"
        /\ page[d].validating = {}
        /\ page[d].accessCode = page[c].accessCode


\* The response is that of an approve or a reject.
IsReview(r) == r.op \in {"approve", "reject"}

(* C13: approve and reject answer 404 when no request has the id and 400 when
   the request they read is not pending (500 when the read itself fails), and
   in these cases they change no access request; they go on to their update
   only for a request they read as pending. *)
C13_ReviewErrors ==
    /\ [][\A w \in Workers :
            (IsReview(call[w]) /\ call[w].pc = "find" /\ Steps(w))
              => /\ accessRequests' = accessRequests
                 /\ call[w].id \notin DOMAIN accessRequests
                      => call'[w].pc = "idle" /\ response'.status \in {404, 500}
                 /\ (/\ call[w].id \in DOMAIN accessRequests
                     /\ accessRequests[call[w].id].status # "pending")
                      => call'[w].pc = "idle" /\ response'.status \in {400, 500}
                 /\ call'[w].pc = "update"
                      => /\ call[w].id \in DOMAIN accessRequests
                         /\ accessRequests[call[w].id].status = "pending"]_vars
    /\ [](IsReview(response) /\ response.status = 404
            => response.id \notin DOMAIN accessRequests)
    /\ [](IsReview(response) /\ response.status = 400
            => /\ response.id \in DOMAIN accessRequests
               /\ accessRequests[response.id].status # "pending")

\* A reject was answered 400 for a request the calling admin had approved.
C13_Witness ==
    /\ response.op = "reject"
    /\ response.status = 400
    /\ accessRequests[response.id].status = "approved"
    /\ accessRequests[response.id].reviewedBy = response.session
    /\ accessRequests[response.id].rejectionReason = Null


\* The requests among the ids that are pending in the current state.
Pending(ids) ==
    {i \in ids : i \in DOMAIN accessRequests /\ accessRequests[i].status = "pending"}

(* C14: the single updateMany of batchApprove moves to approved, with the time
   and the calling admin as reviewer, exactly the requests among the given ids
   that are pending when it runs; every other request stays as it is, nothing
   is reported as an error, and count is the number of requests moved. *)
C14_BatchApproveExact ==
    [][\A w \in Workers :
         (call[w].op = "batchApprove" /\ call[w].pc = "updateMany" /\ Steps(w))
           => /\ call'[w].pc = "idle"
              /\ response'.status \in {200, 500}
              /\ response'.errors = <<>>
              /\ response'.status = 500 => accessRequests' = accessRequests
              /\ response'.status = 200
                   => /\ response'.count = Cardinality(Pending(call[w].ids))
                      /\ DOMAIN accessRequests' = DOMAIN accessRequests
                      /\ \A i \in DOMAIN accessRequests :
                            accessRequests'[i] =
                               IF i \in Pending(call[w].ids)
                               THEN [accessRequests[i] EXCEPT
                                       !.status = "approved",
                                       !.reviewedAt = Some(now),
                                       !.reviewedBy = call[w].session]
                               ELSE accessRequests[i]]_vars

\* A batch of a request rejected just before, a pending one and an unknown id:
\* one request moved, the rejected one kept its decision.
C14_Witness ==
    /\ response.op = "batchApprove"
    /\ response.status = 200
    /\ response.count = 1
    /\ UnknownId \in response.ids
    /\ \E i, j \in response.ids \cap DOMAIN accessRequests :
          /\ accessRequests[i].status = "rejected"
          /\ accessRequests[j].status = "approved"
          /\ accessRequests[j].reviewedBy = response.session


(* C15: every access code that batchSendInvitations creates, for the approved
   request R it is working on, has generationType user_request, accessRequestId
   R, generatedBy the calling admin, isUsed false, no redemption data, and
   expiresAt 24 hours after the moment of the create; the admin routes add a
   code in no other way, and R was approved when the call loaded it. *)
C15_IssuedCodeFields ==
    /\ [][accessCodes' # accessCodes
            => \E w \in Workers :
                  /\ call[w].op = "batchSendInvitations"
                  /\ call[w].pc = "create"
                  /\ Role(call[w].session) = "admin"
                  /\ accessCodes' =
                       Append(accessCodes,
                              [code |-> call[w].code, isUsed |-> FALSE,
                               usedByEmail |-> None, usedAt |-> None,
                               expiresAt |-> now + InvitationTtl,
                               generatedBy |-> call[w].session,
                               generationType |-> "user_request",
                               accessRequestId |-> Some(Current(w))])]_vars
    /\ [][\A w \in Workers :
            (call[w].pc = "load" /\ call'[w].pc = "existing")
              => \A k \in DOMAIN call'[w].requests :
                    accessRequests[call'[w].requests[k]].status = "approved"]_vars

\* A code issued a day into the behaviour, for an approved request, by the
\* calling admin, and reported in results.
C15_Witness ==
    /\ IsBatchSend(response)
    /\ response.status = 200
    /\ \E i \in CodeIds : \E r \in Ids(response.results) :
          /\ accessCodes[i].accessRequestId = Some(r)
          /\ accessCodes[i].generatedBy = response.session
          /\ accessCodes[i].generationType = "user_request"
          /\ accessCodes[i].expiresAt = 1 + InvitationTtl
          /\ ~accessCodes[i].isUsed
          /\ accessRequests[r].status = "approved"


\* A submission of worker w ends with the answer of the given status.
SubmitAnswers(w, status) ==
    /\ submit[w].pc # "idle"
    /\ submit'[w].pc = "idle"
    /\ submitResponse'.status = status

(* C16: a submission for an e-mail whose lower-cased form has an account is
   answered 409 "Account already exists" (unless an earlier check refuses it)
   and creates nothing, and a submission creates an access request, pending,
   only when neither a pending request nor an account exists for the e-mail.
   The route checks both two storage calls before its create, so a second
   submission can create while the first one's request is already pending. *)
C16_CreatesOnlyWhenFree ==
    [][\A w \in Workers :
         /\ (/\ submit[w].pc # "idle"
             /\ submit'[w] # submit[w]
             /\ toLowerCase(submit[w].email) \in users)
              => /\ accessRequests' = accessRequests
                 /\ submit'[w].pc \notin {"create"}
                 /\ SubmitAnswers(w, 409) /\ submit[w].pc = "findUser"
                      => submitResponse'.error = "Account already exists"
         /\ (submit[w].pc = "create" /\ accessRequests' # accessRequests)
              => /\ PendingOf(toLowerCase(submit[w].email)) = {}
                 /\ toLowerCase(submit[w].email) \notin users
                 /\ accessRequests' =
                      Append(accessRequests, NewRequest(toLowerCase(submit[w].email)))
                 /\ SubmitAnswers(w, 201)]_vars


\* The handler of worker w is past the CAPTCHA gate.
PastCaptcha(w) == submit[w].pc \in {"rateLimit", "findPending", "findUser", "create"}

\* Some answer of the verification service would let the token of w through.
Verifiable(w) ==
    IF captchaEnv.secretKey THEN submit[w].captchaToken \notin {"", " "}
    ELSE captchaEnv.isDevelopment

(* C17 as stated: in every environment mode a submission whose token cannot be
   verified, the secret key not being configured included, is refused and does
   not get past the CAPTCHA gate. *)
C17_CaptchaFailsClosed ==
    ~captchaEnv.secretKey => \A w \in Workers : ~PastCaptcha(w)

(* C17 amended: with the secret key configured the token is verified only by a
   successful answer of the service for a non-blank token; without the key the
   verification fails outside development mode and is skipped, as a success,
   in development mode. A submission whose verification fails is answered 400,
   creates no access request and consumes no rate-limit point; points are
   consumed and requests created only past the gate. *)
C17_CaptchaGate ==
    /\ [](\A token \in TokenInputs, outcome \in SiteverifyOutcomes :
            verifyTurnstileToken(token, outcome) = ""
              <=> IF captchaEnv.secretKey
                  THEN outcome = "success" /\ token \notin {"", " "}
                  ELSE captchaEnv.isDevelopment)
    /\ [][\A w \in Workers :
            (submit[w].pc = "captcha" /\ submit'[w] # submit[w])
              => /\ accessRequests' = accessRequests
                 /\ rateLimits' = rateLimits
                 /\ SubmitAnswers(w, 400) \/ submit'[w].pc = "rateLimit"
                 /\ submit'[w].pc = "rateLimit" => Verifiable(w)
                 /\ ~Verifiable(w) => SubmitAnswers(w, 400)]_vars
    /\ [][(rateLimits' # rateLimits \/ accessRequests' # accessRequests)
            => \E w \in Workers : PastCaptcha(w) /\ submit'[w] # submit[w]]_vars
    /\ [](\A w \in Workers :
            PastCaptcha(w) => captchaEnv.secretKey \/ captchaEnv.isDevelopment)

\* After a request was created for an e-mail, a second submission of the
\* e-mail was refused because the verification service answered with an
\* error: still one request, and one point consumed.
C17_Witness ==
    /\ submitResponse.status = 400
    /\ submitResponse.error = "CAPTCHA verification service error"
    /\ Len(accessRequests) = 1
    /\ accessRequests[1].email = toLowerCase(submitResponse.email)
    /\ accessRequests[1].email \in DOMAIN rateLimits
    /\ rateLimits[accessRequests[1].email].consumed = 1
    /\ \A w \in Workers : submit[w].pc = "idle"


\* The limiter key of the submission of worker w.
LimiterKey(w) == toLowerCase(submit[w].email)

\* The next consume on the key would exceed the points of the limiter.
LimitReached(key) == Consume(key).consumed > AccessRequestPoints

(* C18: the rate-limit step of a submission either leaves the limiter's store
   untouched (the store failed) and then lets the submission go on, or consumes
   one point for the lower-cased e-mail and refuses with 429 exactly when the
   points are exceeded; a 429 is answered only by a step that consumed a point
   beyond the limit. *)
C18_LimiterFailsOpen ==
    /\ [][\A w \in Workers :
            (submit[w].pc = "rateLimit" /\ submit'[w] # submit[w])
              => \/ /\ rateLimits' = rateLimits
                    /\ submit'[w].pc = "findPending"
                 \/ /\ rateLimits' # rateLimits
                    /\ rateLimits'[LimiterKey(w)] = Consume(LimiterKey(w))
                    /\ IF LimitReached(LimiterKey(w))
                       THEN SubmitAnswers(w, 429)
                       ELSE submit'[w].pc = "findPending"]_vars
    /\ [][\A w \in Workers :
            SubmitAnswers(w, 429)
              => /\ submit[w].pc = "rateLimit"
                 /\ LimitReached(LimiterKey(w))
                 /\ rateLimits' # rateLimits]_vars

\* With the limit of its e-mail already exceeded (a submission was refused
\* with 429), another submission of the e-mail got past the limiter without
\* consuming a point.
C18_Witness ==
    \E w \in Workers :
        /\ submit[w].pc = "findPending"
        /\ LimiterKey(w) \in DOMAIN rateLimits
        /\ rateLimits[LimiterKey(w)].consumed = AccessRequestPoints + 1
        /\ now < rateLimits[LimiterKey(w)].expiresAt
        /\ submitResponse.status = 429
        /\ toLowerCase(submitResponse.email) = LimiterKey(w)


(* C19: reviewedAt and reviewedBy of an access request are null exactly when
   the request is pending, and once the request has left pending they are
   never written again, under any interleaving of approve, reject and
   batchApprove by different admins. An approve and a reject of the same
   pending request both pass their status check before either writes, and the
   later update replaces the reviewer and the review time of the earlier. *)
C19_ReviewWrittenOnce ==
    /\ [](\A i \in DOMAIN accessRequests :
            /\ accessRequests[i].reviewedAt = None
                  <=> accessRequests[i].status = "pending"
            /\ accessRequests[i].reviewedBy = Null
                  <=> accessRequests[i].status = "pending")
    /\ [][\A i \in DOMAIN accessRequests :
            accessRequests[i].status # "pending"
              => /\ accessRequests'[i].reviewedAt = accessRequests[i].reviewedAt
                 /\ accessRequests'[i].reviewedBy = accessRequests[i].reviewedBy]_vars


(* C20: every access code that references an access request references one
   whose status is approved, under any interleaving of approve, reject,
   batchApprove and batchSendInvitations. A reject that read the request as
   pending writes its update by id alone, also after the request was approved
   and a code was created for it. *)
C20_CodesOfApprovedOnly ==
    \A k \in DOMAIN accessCodes :
        accessCodes[k].accessRequestId # None
          => accessRequests[accessCodes[k].accessRequestId[1]].status = "approved"

\* The requests of a list of errors whose code generation was given up.
Exhausted(errors) ==
    {errors[k].requestId : k \in {j \in DOMAIN errors :
                                    errors[j].error = "Failed to generate unique code"}}

(* C21: for each item of batchSendInvitations the generate-and-check loop makes
   at most 10 generations and lookups: a lookup is made only after fewer than
   10 earlier ones, each colliding candidate counts one, and the tenth lookup
   ends the loop. When the tenth candidate collides too, the item is recorded
   with "Failed to generate unique code", no access code is created and no
   e-mail is sent by that step, and the item gets no entry in results. *)
C21_GenerationBounded ==
    /\ [](\A w \in Workers :
            call[w].pc = "generate" => call[w].attempts < MaxAttempts)
    /\ [][\A w \in Workers :
            (call[w].pc = "generate" /\ Steps(w))
              => /\ accessCodes' = accessCodes
                 /\ emailsSent' = emailsSent
                 /\ call'[w].pc = "generate"
                      => /\ call'[w].idx = call[w].idx
                         /\ call'[w].attempts = call[w].attempts + 1
                 /\ call[w].attempts = MaxAttempts - 1 => call'[w].pc # "generate"
                 /\ (call'[w].pc = "create") =>
                       FindCodeByString(call'[w].code) = {}]_vars
    /\ [][\A w \in Workers :
            (InLoop(w) /\ Steps(w)
               /\ Exhausted(IF call'[w].pc = "idle" THEN response'.errors
                            ELSE call'[w].errors) # Exhausted(call[w].errors))
              => /\ call[w].pc = "generate"
                 /\ call[w].attempts = MaxAttempts - 1
                 /\ accessCodes' = accessCodes
                 /\ emailsSent' = emailsSent]_vars
    /\ [](IsBatchSend(response)
            => Exhausted(response.errors) \cap Ids(response.results) = {})

\* A batch-send answered with an item whose ten candidates all collided, the
\* request of the item having no code.
C21_Witness ==
    /\ IsBatchSend(response)
    /\ response.status = 200
    /\ Exhausted(response.errors) # {}
    /\ \A i \in Exhausted(response.errors) : FindCodeByRequest(i) = {}
    /\ \A i \in Exhausted(response.errors) :
         \A m \in emailsSent : m.requestId # i

\* Request i has an issued code whose invitation was not delivered and is not
\* being sent: the dispatch of its e-mail has failed.
Undelivered(i) ==
    /\ FindCodeByRequest(i) # {}
    /\ \A m \in emailsSent : m.requestId # i
    /\ \A w \in Workers : ~(InLoop(w) /\ call[w].pc = "email" /\ Current(w) = i)

(* C22: after the e-mail dispatch has failed for a request whose code was
   issued, a later batchSendInvitations for that request can dispatch the
   invitation carrying that code: the item of such a request is not refused on
   account of the code it already has. The handler looks for a code of the
   request first and records "Access code already generated" when it finds
   one, so the item never reaches the dispatch. *)
C22_ResendDispatches ==
    [][\A w \in Workers :
         (InLoop(w) /\ call[w].pc = "existing" /\ Steps(w) /\ Undelivered(Current(w)))
           => ~\E k \in DOMAIN ErrorsAfter(w) :
                  /\ ErrorsAfter(w)[k].requestId = Current(w)
                  /\ ErrorsAfter(w)[k].error = "Access code already generated"]_vars

\* The page of c is waiting for the answer of use-access-code.
Redeeming(c) == page[c].pc \in {"useCode", "redeemUpdate"}

(* C23: in the signup flow the account creation is attempted only after a
   redeem call for the entered code and e-mail has returned success: the page
   reaches signUp.email only from the answer of use-access-code, with the code
   marked used by the e-mail of the form, and a submitted form goes to the
   redeem call first even when validate has answered valid. When the redeem
   call fails the page returns to the form and no account is created. *)
C23_RedeemBeforeAccount ==
    /\ [](\A c \in Clients : page[c].pc = "signUp" => page[c].useCodeOk)
    /\ [][\A c \in Clients :
            (page[c].pc # "signUp" /\ page'[c].pc = "signUp")
              => /\ Redeeming(c)
                 /\ page'[c].email = page[c].email
                 /\ page'[c].accessCode = page[c].accessCode
                 /\ \E i \in FindCodeByString(page[c].accessCode) :
                       /\ accessCodes'[i].isUsed
                       /\ accessCodes'[i].usedByEmail = Some(page[c].email)]_vars
    /\ [][\A c \in Clients :
            (page[c].pc = "form" /\ page'[c].pc # "form")
              => page'[c].pc = "useCode" /\ page[c].codeValidationStatus = "valid"]_vars
    /\ [][\A c \in Clients :
            (Redeeming(c) /\ page'[c].pc \notin {"signUp", "redeemUpdate", "useCode"})
              => /\ page'[c].pc = "form"
                 /\ page'[c].toast # ""
                 /\ users' = users]_vars
    /\ [][users' # users => \E c \in Clients : page[c].pc = "signUp" /\ page[c].useCodeOk]_vars

\* One page is creating its account after its redeem call succeeded; the other,
\* whose code validate had found valid, was refused by redeem and is back on
\* the form with no account.
C23_Witness ==
    \E c, d \in Clients :
        /\ c # d
        /\ page[c].pc = "signUp"
        /\ page[d].pc = "form"
        /\ page[d].codeValidationStatus = "valid"
        /\ page[d].toast = "AlreadyUsed"
        /\ page[d].accessCode = page[c].accessCode
        /\ users = {}

----------------------------------------------------------------------------
(* generateAccessCode on its own: the bytes of crypto.randomBytes(12) *)

\* The values of a byte.
Bytes == 0..255

\* The draws of the generator that are looked at: every byte value at every
\* position, the other positions holding the highest byte.
ByteDraws ==
    {[i \in 1..CodeLength |-> IF i = j THEN b ELSE 255] : j \in 1..CodeLength, b \in Bytes}

\* const randomBytes = crypto.randomBytes(12); ...; return code
Generate ==
    /\ \E randomBytes \in ByteDraws :
         generated' = [randomBytes |-> randomBytes,
                       code |-> generateAccessCode(randomBytes)]
    /\ UNCHANGED <<accessRequests, accessCodes, users, now, adminVars, submitVars,
                   signupVars, magicVars, authVars>>

InitGenerate ==
    /\ accessRequests = <<>>
    /\ accessCodes = <<>>
    /\ users = {}
    /\ now = 0
    /\ AdminIdle
    /\ SubmitQuiet
    /\ SignupIdle
    /\ SideIdle

NextGenerate == Generate

SpecGenerate == InitGenerate /\ [][NextGenerate]_vars

\* The symbols of the alphabet, and how many byte values give each of them.
Alphabet == {chars[k] : k \in DOMAIN chars}
SymbolCounts ==
    [k \in DOMAIN chars |->
       Cardinality({b \in Bytes :
                      generateAccessCode([i \in 1..CodeLength |-> b])[1] = chars[k]})]

(* C24 as stated: the code returned for any 12 random bytes has none of the
   visually ambiguous characters 0, O, 1, I, L. *)
C24_NoAmbiguousCharacter ==
    \A i \in DOMAIN generated.code : generated.code[i] \notin {"0", "O", "1", "I", "L"}

(* C24 amended: for every 12-byte input generateAccessCode returns a string of
   exactly 12 characters, each taken from an alphabet of 32 distinct symbols
   that has none of 0, O, 1, I and does contain L; the character at a position
   depends on the byte at that position only, and every symbol of the alphabet
   is given by the same number, 8, of the 256 byte values. *)
C24_CodeShape ==
    /\ Len(chars) = 32
    /\ Cardinality(Alphabet) = 32
    /\ Alphabet \cap {"0", "O", "1", "I"} = {}
    /\ "L" \in Alphabet
    /\ \A k \in DOMAIN chars : SymbolCounts[k] = 8
    /\ generated # NoDraw
         => /\ Len(generated.code) = CodeLength
            /\ \A i \in 1..CodeLength :
                  /\ generated.code[i] \in Alphabet
                  /\ generated.code[i] =
                       generateAccessCode(
                         [j \in 1..CodeLength |-> generated.randomBytes[i]])[1]

\* A draw whose first byte is beyond the length of the alphabet and gives L,
\* next to the highest byte, which gives 9.
C24_Witness ==
    /\ generated # NoDraw
    /\ generated.randomBytes[1] = 42
    /\ generated.code[1] = "L"
    /\ generated.code[2] = "9"

\* The errors of the checks on the body.
ValidationErrors ==
    {"Email and name are required", "Invalid email format",
     "Name must be between 2 and 255 characters", "CAPTCHA token is required"}

(* C25: a submission refused for a validation error (e-mail or name missing,
   malformed e-mail, name length outside 2..255, CAPTCHA token missing) has no
   side effects. It is answered 400 in the step that reads the body, which
   creates no access request and consumes no rate-limit point, and it never
   reaches the call of the CAPTCHA service: a handler waiting for the
   verification has a well-formed e-mail and a token, and a handler past the
   reading of the body never answers with a validation error. *)
C25_ValidationNoEffect ==
    /\ [][submitsStarted' # submitsStarted
            => /\ accessRequests' = accessRequests
               /\ rateLimits' = rateLimits
               /\ \/ /\ submit' = submit
                     /\ submitResponse'.status = 400
                     /\ submitResponse'.error \in ValidationErrors
                     /\ submitResponse'.requestId = 0
                  \/ \E w \in Workers :
                       /\ submit[w].pc = "idle"
                       /\ submit'[w].pc = "captcha"
                       /\ submitResponse' = submitResponse]_vars
    /\ [](\A w \in Workers :
            submit[w].pc = "captcha"
              => emailRegex(submit[w].email) /\ submit[w].captchaToken # "")
    /\ [][\A w \in Workers :
            (submit[w].pc # "idle" /\ submit'[w].pc = "idle")
              => submitResponse'.error \notin ValidationErrors]_vars

\* The last of the submissions was refused for its missing token: no request
\* exists and the points of its e-mail are what they were.
C25_Witness ==
    /\ submitsStarted = MaxSubmits
    /\ submitResponse.status = 400
    /\ submitResponse.error = "CAPTCHA token is required"
    /\ submitResponse.email = EmailA
    /\ accessRequests = <<>>
    /\ EmailA \in DOMAIN rateLimits
    /\ rateLimits[EmailA].consumed = AccessRequestPoints
    /\ \A w \in Workers : submit[w].pc = "idle"

(* C26: an approve call made with generateCode = true creates an access code
   linked to the approved request. The handler never reads the body of the
   request: it updates the status and answers, so the approved request has no
   code unless a batchSendInvitations has created one. *)
C26_ApproveGeneratesCode ==
    [][\A w \in Workers :
         (/\ call[w].op = "approve"
          /\ call[w].generateCode
          /\ call'[w].pc = "idle"
          /\ response'.status = 200)
           => \E k \in DOMAIN accessCodes' :
                 accessCodes'[k].accessRequestId = Some(call[w].id)]_vars

----------------------------------------------------------------------------
(* magic-link POST: a sign-in link for the account of an e-mail address *)

MaxMagic == 2          \* magic-link requests received in one behaviour
MagicLinkPoints == 3   \* points of the magic-link limiter

\* The e-mail addresses a body can carry: none, that of an account, one
\* without an account, and one without a domain suffix.
MagicEmails == {<<>>, EmailA, EmailB, <<"a", "@", "x">>}

GenericMessage == "If an account exists with this email, a sign-in link has been sent."
SentMessage == "A sign-in link has been sent to your email."

\* The handler of worker w returns its response.
MagicRespond(w, status, message) ==
    /\ magic' = [magic EXCEPT ![w] = MagicIdle]
    /\ magicResponse' = [magicResponse EXCEPT ![w] =
                           [status |-> status, message |-> message,
                            email |-> magic[w].email]]

\* request.json() and the checks on the e-mail.
MagicStart(w) ==
    /\ magic[w].pc = "idle"
    /\ magicStarted < MaxMagic
    /\ magicStarted' = magicStarted + 1
    /\ \E email \in MagicEmails :
         IF email = <<>> \/ ~emailRegex(email)
         THEN /\ magic' = magic
              /\ magicResponse' = [magicResponse EXCEPT ![w] =
                                     [status |-> 400,
                                      message |-> IF email = <<>>
                                                  THEN "Email is required"
                                                  ELSE "Invalid email format",
                                      email |-> email]]
         ELSE /\ magic' = [magic EXCEPT ![w] = [pc |-> "rateLimit", email |-> email]]
              /\ UNCHANGED magicResponse
    /\ UNCHANGED <<accessRequests, accessCodes, users, now, adminVars, submitVars,
                   signupVars, generated, authVars, magicLimits, magicSent>>

\* await checkRateLimit(getMagicLinkLimiter(), email.toLowerCase()); the
\* requests of a behaviour fall into one window of the limiter.
MagicRateLimit(w) ==
    /\ magic[w].pc = "rateLimit"
    /\ \E redisOk \in BOOLEAN :
         LET key == toLowerCase(magic[w].email)
             consumed == (IF key \in DOMAIN magicLimits THEN magicLimits[key] ELSE 0) + 1
         IN
         IF ~redisOk
         THEN /\ magic' = [magic EXCEPT ![w].pc = "findUser"]
              /\ UNCHANGED <<magicLimits, magicResponse>>
         ELSE /\ magicLimits' = [k \in DOMAIN magicLimits \cup {key} |->
                                   IF k = key THEN consumed ELSE magicLimits[k]]
              /\ IF consumed > MagicLinkPoints
                 THEN MagicRespond(w, 429, "Too many requests")
                 ELSE /\ magic' = [magic EXCEPT ![w].pc = "findUser"]
                      /\ UNCHANGED magicResponse
    /\ UNCHANGED <<accessRequests, accessCodes, users, now, adminVars, submitVars,
                   signupVars, generated, authVars, magicStarted, magicSent>>

\* prisma.user.findUnique({ where: { email: email.toLowerCase() } })
MagicFindUser(w) ==
    /\ magic[w].pc = "findUser"
    /\ \E dbOk \in BOOLEAN :
         IF ~dbOk THEN MagicRespond(w, 500, "Failed to send magic link")
         ELSE IF toLowerCase(magic[w].email) \notin users
         THEN MagicRespond(w, 200, GenericMessage)
         ELSE /\ magic' = [magic EXCEPT ![w].pc = "send"]
              /\ UNCHANGED magicResponse
    /\ UNCHANGED <<accessRequests, accessCodes, users, now, adminVars, submitVars,
                   signupVars, generated, authVars, magicLimits, magicStarted, magicSent>>

\* await auth.api.sendVerificationEmail({ body: { email, callbackURL } })
MagicSend(w) ==
    /\ magic[w].pc = "send"
    /\ \E sent \in BOOLEAN :
         IF sent
         THEN /\ magicSent' = magicSent \cup {toLowerCase(magic[w].email)}
              /\ MagicRespond(w, 200, SentMessage)
         ELSE /\ UNCHANGED magicSent
              /\ MagicRespond(w, 200, GenericMessage)
    /\ UNCHANGED <<accessRequests, accessCodes, users, now, adminVars, submitVars,
                   signupVars, generated, authVars, magicLimits, magicStarted>>

MagicLink(w) ==
    \/ MagicStart(w)
    \/ MagicRateLimit(w)
    \/ MagicFindUser(w)
    \/ MagicSend(w)

\* An account exists for one of the two addresses; the limiter is empty or has
\* the points of the other address used up.
InitMagic ==
    /\ accessRequests = <<>>
    /\ accessCodes = <<>>
    /\ users = {EmailA}
    /\ now = 0
    /\ AdminIdle
    /\ SubmitQuiet
    /\ SignupIdle
    /\ generated = NoDraw
    /\ magic = [w \in Workers |-> MagicIdle]
    /\ magicLimits \in {<<>>, [k \in {EmailB} |-> MagicLinkPoints]}
    /\ magicStarted = 0
    /\ magicResponse = [w \in Workers |-> NoMagicResponse]
    /\ magicSent = {}
    /\ AuthQuiet

NextMagic == \E w \in Workers : MagicLink(w)

SpecMagic == InitMagic /\ [][NextMagic]_vars

(* C27: for two magic-link requests with well-formed, not rate-limited e-mail
   addresses that differ only in whether an account exists for the address,
   the response, status and body, is the same. The route answers the address
   without an account with the message for either case, and the address with
   an account, once the link is sent, with a message of its own. *)
C27_ResponseHidesAccount ==
    \A v, w \in Workers :
        (/\ magicResponse[v].status = 200
         /\ magicResponse[w].status = 200
         /\ toLowerCase(magicResponse[v].email) \in users
         /\ toLowerCase(magicResponse[w].email) \notin users)
          => magicResponse[v].message = magicResponse[w].message

(* C28: on the signup page, whenever codeValidationStatus is "valid" the access
   code in the input field is the code whose validate response was valid: the
   status becomes or stays "valid" on a response only when the response is for
   the content of the field. validateAccessCode sets the status from whichever
   response arrives and does not look at the field, so the response for a code
   the visitor has since replaced marks the new content as valid. *)
C28_ValidMeansCurrentCode ==
    [][\A c \in Clients :
         (page'[c] # page[c] /\ page'[c].codeValidationStatus = "valid")
           => \/ /\ page[c].codeValidationStatus = "valid"
                 /\ page'[c].accessCode = page[c].accessCode
                 /\ page'[c].validating = page[c].validating
              \/ \E code \in page[c].validating \ page'[c].validating :
                    code = page'[c].accessCode]_vars

----------------------------------------------------------------------------
(* AuthContextProvider: the session, the JWT of the backend and the user.
   Of the provider's state the model keeps the session, user, jwtToken and
   jwtExpiresAt; the loading flags and error texts are not read by the code
   modelled here. *)

MaxAuthChanges == 3   \* session changes and refresh calls in one behaviour

SessionUsers == {"u1"}

\* What fetchJwtToken resolves with for the session of user u.
JwtOf(u) == <<"jwt", u>>
ExpiresOf(u) == <<"expires_at", u>>

\* An asynchronous call of the provider at its pending fetch.
AuthTask(kind, pc, u) == [kind |-> kind, pc |-> pc, isActive |-> TRUE, user |-> u]

\* The sequence without its i-th element.
RemoveAt(q, i) == [k \in 1..(Len(q) - 1) |-> IF k < i THEN q[k] ELSE q[k + 1]]

\* The cleanup of the effect: isActive = false for the runs of initializeAuth.
Deactivated(q) ==
    [k \in DOMAIN q |-> IF q[k].kind = "initializeAuth"
                        THEN [q[k] EXCEPT !.isActive = FALSE] ELSE q[k]]

\* useSession() gives another session; the effect of the provider runs: its
\* cleanup first, then the branch for no user or the start of initializeAuth,
\* which is at fetchJwtToken when the effect returns.
AuthSessionChange ==
    /\ authChanges < MaxAuthChanges
    /\ authChanges' = authChanges + 1
    /\ \E s \in {"none"} \cup SessionUsers :
         /\ s # authSession
         /\ authSession' = s
         /\ IF s = "none"
            THEN /\ authUser' = Null
                 /\ jwtToken' = Null
                 /\ jwtExpiresAt' = Null
                 /\ authTasks' = Deactivated(authTasks)
            ELSE /\ UNCHANGED <<authUser, jwtToken, jwtExpiresAt>>
                 /\ authTasks' = Append(Deactivated(authTasks),
                                        AuthTask("initializeAuth", "jwt", s))
    /\ UNCHANGED <<accessRequests, accessCodes, users, now, adminVars, submitVars,
                   signupVars, generated, magicVars>>

\* refreshJwtToken(): loadJwtToken() up to its fetch.
AuthRefreshJwtToken ==
    /\ authChanges < MaxAuthChanges
    /\ authChanges' = authChanges + 1
    /\ IF authSession \notin SessionUsers
       THEN /\ jwtToken' = Null
            /\ jwtExpiresAt' = Null
            /\ UNCHANGED authTasks
       ELSE /\ UNCHANGED <<jwtToken, jwtExpiresAt>>
            /\ authTasks' = Append(authTasks,
                                   AuthTask("refreshJwtToken", "jwt", authSession))
    /\ UNCHANGED <<authSession, authUser>>
    /\ UNCHANGED <<accessRequests, accessCodes, users, now, adminVars, submitVars,
                   signupVars, generated, magicVars>>

\* refreshUser(): const token = jwtToken ?? (await loadJwtToken()), up to the
\* first fetch.
AuthRefreshUser ==
    /\ authChanges < MaxAuthChanges
    /\ authChanges' = authChanges + 1
    /\ IF jwtToken # Null
       THEN /\ authTasks' = Append(authTasks,
                                   AuthTask("refreshUser", "sessionInfo", jwtToken[2]))
            /\ UNCHANGED <<authUser, jwtToken, jwtExpiresAt>>
       ELSE IF authSession \notin SessionUsers
       THEN /\ jwtToken' = Null
            /\ jwtExpiresAt' = Null
            /\ authUser' = Null
            /\ UNCHANGED authTasks
       ELSE /\ authTasks' = Append(authTasks,
                                   AuthTask("refreshUser", "jwt", authSession))
            /\ UNCHANGED <<authUser, jwtToken, jwtExpiresAt>>
    /\ UNCHANGED authSession
    /\ UNCHANGED <<accessRequests, accessCodes, users, now, adminVars, submitVars,
                   signupVars, generated, magicVars>>

\* fetchJwtToken() settles in loadJwtToken: the token is set, or cleared when
\* the fetch failed; then the caller goes on with the token it got.
AuthJwtReturns(i) ==
    /\ i \in DOMAIN authTasks
    /\ authTasks[i].pc = "jwt"
    /\ \E ok \in BOOLEAN :
         LET t == authTasks[i] IN
         /\ jwtToken' = IF ok THEN JwtOf(t.user) ELSE Null
         /\ jwtExpiresAt' = IF ok THEN ExpiresOf(t.user) ELSE Null
         /\ IF t.kind = "refreshJwtToken" \/ (t.kind = "initializeAuth" /\ ~t.isActive)
            THEN /\ authTasks' = RemoveAt(authTasks, i)
                 /\ UNCHANGED authUser
            ELSE IF ~ok
            THEN /\ authTasks' = RemoveAt(authTasks, i)
                 /\ authUser' = Null
            ELSE /\ authTasks' = [authTasks EXCEPT ![i].pc = "sessionInfo"]
                 /\ UNCHANGED authUser
    /\ UNCHANGED <<authSession, authChanges>>
    /\ UNCHANGED <<accessRequests, accessCodes, users, now, adminVars, submitVars,
                   signupVars, generated, magicVars>>

\* loadUser: the fetch of session-info settles.
AuthSessionInfoReturns(i) ==
    /\ i \in DOMAIN authTasks
    /\ authTasks[i].pc = "sessionInfo"
    /\ \E ok \in BOOLEAN :
         IF ok
         THEN /\ authTasks' = [authTasks EXCEPT ![i].pc = "profile"]
              /\ UNCHANGED authUser
         ELSE /\ authTasks' = RemoveAt(authTasks, i)
              /\ authUser' = Null
    /\ UNCHANGED <<authSession, jwtToken, jwtExpiresAt, authChanges>>
    /\ UNCHANGED <<accessRequests, accessCodes, users, now, adminVars, submitVars,
                   signupVars, generated, magicVars>>

\* loadUser: the fetch of /api/user/profile settles: the profile, or the user
\* mapped from the session info.
AuthProfileReturns(i) ==
    /\ i \in DOMAIN authTasks
    /\ authTasks[i].pc = "profile"
    /\ \E ok \in BOOLEAN :
         authUser' = <<IF ok THEN "profile" ELSE "sessionInfo", authTasks[i].user>>
    /\ authTasks' = RemoveAt(authTasks, i)
    /\ UNCHANGED <<authSession, jwtToken, jwtExpiresAt, authChanges>>
    /\ UNCHANGED <<accessRequests, accessCodes, users, now, adminVars, submitVars,
                   signupVars, generated, magicVars>>

InitAuth ==
    /\ accessRequests = <<>>
    /\ accessCodes = <<>>
    /\ users = {}
    /\ now = 0
    /\ AdminIdle
    /\ SubmitQuiet
    /\ SignupIdle
    /\ SideIdle

NextAuth ==
    \/ AuthSessionChange
    \/ AuthRefreshJwtToken
    \/ AuthRefreshUser
    \/ \E i \in 1..MaxAuthChanges :
         AuthJwtReturns(i) \/ AuthSessionInfoReturns(i) \/ AuthProfileReturns(i)

SpecAuth == InitAuth /\ [][NextAuth]_vars

(* C29: in AuthContextProvider, once the session has no user, user, jwtToken
   and jwtExpiresAt are null and stay null until a session user appears again,
   even when a JWT or profile fetch started for the previous session completes
   afterwards. loadJwtToken sets the token when its fetch resolves without
   looking at isActive, and loadUser sets the user when its fetches resolve,
   so a fetch that outlives the session writes after the values were
   cleared. *)
C29_SignedOutIsNull ==
    authSession = "none"
      => authUser = Null /\ jwtToken = Null /\ jwtExpiresAt = Null

\* The signup page reached only through the links of the invitation e-mails.
SignupInvited(c) ==
    \/ OpenInvitation(c) \/ handleAccessCodeChange(c) \/ ValidateReturns(c)
    \/ handleSignup(c) \/ RedeemValidate(c) \/ RedeemUpdate(c) \/ SignUpEmail(c)
    \/ TrackLogin(c)

NextInvitation == Tick \/ \E c \in Clients : SignupInvited(c)

SpecInvitation == InitSignup /\ [][NextInvitation]_vars

(* C30: the invitation link e-mailed by batchSendInvitations carries the issued
   code under the query parameter the signup page reads, so a page opened with
   the link has its access-code field filled with an issued code and the
   validation of that code started. The link names the parameter code, the
   page reads accessCode: the field stays empty and nothing is validated. *)
C30_LinkPrefillsCode ==
    [][\A c \in Clients :
         (page[c].pc = "mount" /\ page'[c].pc = "form")
           => /\ \E k \in DOMAIN accessCodes :
                    page'[c].accessCode = accessCodes[k].code
              /\ page'[c].codeValidationStatus = "validating"
              /\ page'[c].accessCode \in page'[c].validating]_vars

====
